---- MODULE Spec2Model ----
(***************************************************************************)
(* FlashGraph bulk-synchronous vertex engine driven by the k-core client.  *)
(*                                                                         *)
(* The k-core vertex program (kcore_vertex, multicast_delete_msg, the      *)
(* activation filter, the two vertex queries and main) is translated from  *)
(* src/apps/k-core/k_core.cpp; the counters and accessors of graph_engine  *)
(* from src/flash-graph/graph_engine.h.  The bodies of the level           *)
(* scheduler, the worker loop, the message fabric, the partitioner and     *)
(* query_on_all are not part of the source tree; they follow sections 4.1  *)
(* to 4.6 and 5 of the specification.  Spec is the program whose reads all *)
(* succeed; FaultSpec adds adjacency reads that fail (section 7).          *)
(*                                                                         *)
(* Beside the engine the module holds the sparse matrix layer of           *)
(* src/matrix/sparse_matrix.h and sparse_matrix.cpp (block execution       *)
(* orders, the block compute task and its run loop, SpMV and SpMM,         *)
(* multiply, init_flash_matrix and destroy_flash_matrix, alone and from    *)
(* several threads), the command line of                                   *)
(* src/flash-graph/test-algs/test_algs.cpp, and the workload generators    *)
(* rand_permute and balanced_workload of src/workload.h.  Each of them is  *)
(* a program of its own, with its own variables and its own                *)
(* specification; the variables of the other programs stay at their idle   *)
(* values.                                                                 *)
(***************************************************************************)
EXTENDS Integers, Sequences, FiniteSets, TLC

\* ------------------------------------------------------------------ bounds
NumVertices == 3
NumWorkers == 2
MaxK == 3
\* capacity, in messages, of one (src worker, dst worker) buffer
MsgBufCap == 1
\* graph_engine::max_processing_vertices (a configuration value)
MaxProcessingVertices == 1
\* calls of add_active_next_itr made in one run of the program
MaxActivateCalls == 1
\* block grids are 1 x 1 up to MaxGrid x MaxGrid
MaxGrid == 4
\* Hilbert orders are built for n = 2^0 .. 2^MaxLog2N
MaxLog2N == 2
\* a block vector holds at most MaxNulls empty (null) blocks
MaxNulls == 2
\* bytes of a page, and the largest byte offset and size of a matrix_io
PAGE_SIZE == 4
MaxOff == 9
MaxIoSize == 9
\* calls of init_flash_matrix and destroy_flash_matrix in one run
MaxCalls == 7
\* rows and columns of a sparse matrix and of its dense operand
MaxDim == 3
\* rand_permute: the largest num and stride, and the largest value random()
\* returns
MaxNum == 5
MaxStride == 2
MaxRandom == 3
\* balanced_workload: the slots of a chunk (CHUNK_SLOTS is 1024 in
\* workload.h), the chunks of the shared source and the has_next calls made
CHUNK_SLOTS == 2
MaxChunks == 2
MaxHasNext == 5
\* the threads that call init_flash_matrix and the calls they make in all
NumThreads == 3
MaxThreadCalls == 4
\* block_compute_task::run: the block rows of a task and the block columns
\* of the matrix
MaxRunRows == 2
MaxBlockCols == 4
\* SpMV and SpMM: rows and columns of the sparse matrix, its non-zero
\* entries, the rows (and columns) of a block, the row width of the dense
\* operand of SpMM, and the number of values of the element type T
SpDim == 4
MaxNnz == 2
MaxBlockSize == 2
SpWidth == 2
TModulus == 16

\* vsize_t is unsigned: 0 - 1 wraps to the largest value of the type.  TLC's
\* integers are 32-bit signed, so the wrapped value is represented by the
\* largest integer TLC holds; only its exceeding every k and degree matters.
VSizeMax == 2147483647

\* graph_engine::vertex_header_size and sizeof(vertex_id_t), in bytes
vertex_header_size == 16
sizeof_vertex_id_t == 4

Vertices == 0 .. (NumVertices - 1)
Workers == 0 .. (NumWorkers - 1)

\* ------------------------------------------------------------------ graphs
\* Directed graphs over Vertices, as sets of <<src, dst>> edges.
GPath == { <<i, i + 1>> : i \in 0 .. (NumVertices - 2) }
GRing == GPath \cup { <<NumVertices - 1, 0>> }
\* vertex 1 linked in both directions with every other vertex
GHub == { <<i, 1>> : i \in Vertices \ {1} } \cup { <<1, i>> : i \in Vertices \ {1} }
\* vertex 0 points at every vertex, itself included (a self-loop)
GStarLoop == { <<0, i>> : i \in Vertices }
Graphs == { GPath, GRing, GHub, GStarLoop }

\* the graph and index files given to main: the graphs above over NumVertices
\* vertices, the graph without vertices, one isolated vertex, and one vertex
\* whose only edge is a self-loop
GraphFiles ==
    { [n |-> NumVertices, e |-> g] : g \in Graphs }
    \cup { [n |-> 0, e |-> {}], [n |-> 1, e |-> {}], [n |-> 1, e |-> {<<0, 0>>}] }

\* the command line after the options: argc is 4 without kmax, 5 with it
CommandLines ==
    { [argc |-> 4, kmin |-> a, kmax |-> 0] : a \in 1 .. MaxK }
    \cup { [argc |-> 5, kmin |-> a, kmax |-> b] : a \in 1 .. MaxK, b \in 1 .. MaxK }

VARIABLES
    edges,          \* the graph file: set of <<src, dst>>
    num_vertices,   \* the graph header: vertices are 0 .. num_vertices - 1
    argc, argv4,    \* command line of k-core: argument count, argv[4] (kmax)
    kmin, kmax,     \* locals of main
    CURRENT_K,      \* global of k_core.cpp
    mainpc,         \* position of main: "kmax", "start", "wait", "query",
                    \* "exit", "error"
    printed,        \* result lines printed by main: <<k, count>>
    deleted,        \* kcore_vertex::deleted, per vertex
    degree,         \* kcore_vertex::degree, per vertex
    level,          \* graph_engine::level
    is_complete,    \* graph_engine::is_complete
    remaining,      \* graph_engine::num_remaining_vertices_in_level
    tot_activates,  \* activations summed at barrier 2 for the next level
    arrived1, open1,\* barrier1: workers waiting, workers released
    arrived2, open2,\* barrier2
    pc,             \* per worker: position in the worker loop
    curr,           \* per worker: current queue (sequence of vertex ids)
    next,           \* per worker: staging queue for the next level
    inflight,       \* per worker: vertices with an outstanding adjacency request
    sendq,          \* per worker: destinations left of the multicast under way
    sender,         \* per worker: the vertex whose multicast is under way
    ran,            \* per worker: vertices run in this level (for notify)
    outbuf,         \* per (src, dst) worker pair: buffered messages
    inbox,          \* per worker: messages flushed to it, not yet delivered
    io_errors,      \* the vertices whose dispatched adjacency read has failed
    qkind,          \* query_on_all under way: "none", "max", "count"
    qpos,           \* per worker: local id its clone visits next
    qval,           \* per worker: the value held by its clone
    qmerges,        \* per worker: how often its clone was merged
    qresult,        \* the value held by the query passed to query_on_all
    \* history variables, read by the properties only
    runCount,       \* per vertex: run(program) invocations in the worker's level
    wlevel,         \* per worker: the level whose run phase it last entered
    notified,       \* per worker: the last level all its notify calls finished for
    sentCount,      \* per (src, dst) worker pair: messages sent in this level
    pending,        \* messages sent and not yet delivered
    delLevel,       \* per vertex: level of this round it was deleted in, else -2
    deliv,          \* per worker: messages delivered in its current level
    execBy,         \* per vertex: the workers that executed a callback on it
    qvisits,        \* per vertex: run invocations of the query under way
    \* kcore_vertex_program
    activate_next_itr,  \* per worker: kcore_vertex_program::activate_next_itr
    explicitAt,     \* history: the add_active_next_itr calls, [id, lvl, k]
    \* block execution orders and block compute tasks
    use_hilbert_order,  \* matrix_conf.use_hilbert_order()
    grid,           \* the block grid get_multiply_order was asked for
    order,          \* the block_exec_order handed to the tasks
    task,           \* the block_compute_task: exec_order, off, buf_size
    blocks,         \* the block vector passed to exec: block ids and NULL
    executed,       \* the blocks passed to run_on_block, in order
    exec_ret,       \* what exec returned: "true", "false", "none"
    mpc,            \* position of the matrix program
    \* init_flash_matrix / destroy_flash_matrix
    init_count,     \* static std::atomic<size_t> init_count
    io_system,      \* the SAFS I/O system is initialised
    fm_calls,       \* history: the calls made and what each did to SAFS
    \* sparse_matrix::multiply
    matrix,         \* the sparse matrix: is_fg, nrows, ncols
    mul_in,         \* the operand of the multiply call
    mul_ret,        \* the pointer multiply returned
    num_computes,   \* calls of sparse_matrix::compute
    \* test_algs
    cli_pc,         \* position of main of test_algs
    cli_argv,       \* its command line
    flash_graph,    \* init_flash_graph / destroy_flash_graph: "none", "up", "down"
    alg_ran,        \* the algorithm that was run, "none" when none was
    exit_status,    \* exit status of the process, -1 while it runs
    \* history of the k-core vertices, read by the properties only
    msgsTo,         \* per vertex: deletion messages delivered to it
    \* rand_permute
    rp_num,         \* rand_permute::num
    rp_stride,      \* the stride the constructor was given
    rp_offset,      \* rand_permute::offset, the array (index 0 is entry 1)
    rp_i,           \* the index i of the constructor's second loop
    rp_pc,          \* position of the constructor: "fill", "shuffle", "done"
    \* balanced_workload
    bw_offsets,     \* balanced_workload::offsets (index 0 is entry 1)
    bw_curr,        \* balanced_workload::curr
    chunks_taken,   \* the shared source: chunks handed out so far
    chunks_total,   \* the shared source: chunks it holds in all
    bw_rets,        \* history: what the has_next calls returned, in order
    bw_chunk,       \* history: the offsets the last get_workload delivered
    bw_handed,      \* history: the offsets next_offset handed out
    bw_may_read,    \* the caller's last call was a has_next that returned true
    \* init_flash_matrix called by several threads
    tpc,            \* per thread: "out", "init", "catch", "returned", "thrown"
    tcount,         \* per thread: the local count of its init_flash_matrix
    tcalls,         \* calls of init_flash_matrix made so far, by all threads
    \* block_compute_task::run
    brows,          \* per block row of the task: the columns of its blocks
    its,            \* the iterators: per entry the index of its current block
    reads,          \* history: the indices of block_rows that were read
    sb_col_idx,     \* the column index of the super block (in blocks)
    has_blocks,     \* a block row has a block left
    notify_count,   \* history: calls of notify_complete
    \* SpMV and SpMM
    sp_matrix,      \* the sparse matrix: its non-zero entries <<row, col>>
    sp_kind,        \* "spmv" (block_spmv_task) or "spmm" (block_spmm_task)
    sp_in,          \* the input: per matrix column a row of entries of T
    sp_out,         \* the output: per matrix row a row of entries of T
    sp_block_size,  \* rows and columns of a block (block_2d_size)
    sp_strip,       \* block rows per task
    sp_its,         \* per task: its iterators
    sp_sb,          \* per task: its sb_col_idx
    sp_pc           \* per task: "loop" or "done"

engineVars == << edges, kmin, kmax, CURRENT_K, mainpc, printed, deleted, degree,
                 level, is_complete, remaining, tot_activates, arrived1, open1,
                 arrived2, open2, pc, curr, next, inflight, sendq, sender, ran,
                 outbuf, inbox, runCount, wlevel, notified, sentCount, pending,
                 delLevel, deliv, num_vertices, argc, argv4, io_errors, qkind, qpos,
                 qval, qmerges, qresult, execBy, qvisits >>

inputVars == << edges, num_vertices, argc, argv4, kmin >>
mainVars == << edges, num_vertices, argc, argv4, kmin, kmax, CURRENT_K,
               mainpc, printed >>
kcoreVars == << deleted, degree >>
queryVars == << qkind, qpos, qval, qmerges, qresult, qvisits >>
histVars == << runCount, wlevel, notified, sentCount, pending,
              delLevel, deliv, execBy >>

\* the programs beside the engine
programVars == << activate_next_itr, explicitAt >>
orderVars == << use_hilbert_order, grid, order, task, blocks, executed,
                exec_ret, mpc >>
flashVars == << init_count, io_system, fm_calls >>
mulVars == << matrix, mul_in, mul_ret, num_computes >>
cliVars == << cli_pc, cli_argv, flash_graph, alg_ran, exit_status >>
\* the history of the k-core vertices
countVars == << msgsTo >>
\* the programs added to the module last
permVars == << rp_num, rp_stride, rp_offset, rp_i, rp_pc >>
balVars == << bw_offsets, bw_curr, chunks_taken, chunks_total, bw_rets,
             bw_chunk, bw_handed, bw_may_read >>
threadVars == << tpc, tcount, tcalls >>
runVars == << brows, its, reads, sb_col_idx, has_blocks, notify_count >>
spmvVars == << sp_matrix, sp_kind, sp_in, sp_out, sp_block_size, sp_strip,
              sp_its, sp_sb, sp_pc >>
lateVars == << permVars, balVars, threadVars, runVars, spmvVars >>
quietVars == << programVars, orderVars, flashVars, mulVars, cliVars, lateVars >>
layerVars == << quietVars, countVars >>
vars == << engineVars, layerVars >>

\* ------------------------------------------------------------ pure helpers
RECURSIVE SetToSeq(_)
\* ascending sequence of a finite set of integers
SetToSeq(S) ==
    IF S = {} THEN << >>
    ELSE LET m == CHOOSE x \in S : \A y \in S : x <= y
         IN << m >> \o SetToSeq(S \ {m})

RECURSIVE SumLen(_, _)
SumLen(q, W) ==
    IF W = {} THEN 0
    ELSE LET w == CHOOSE x \in W : TRUE
         IN Len(q[w]) + SumLen(q, W \ {w})

RECURSIVE SumCard(_, _)
SumCard(s, W) ==
    IF W = {} THEN 0
    ELSE LET w == CHOOSE x \in W : TRUE
         IN Cardinality(s[w]) + SumCard(s, W \ {w})

Range(s) == { s[i] : i \in 1 .. Len(s) }

\* ------------------------------------------------- graph index, partitioner
get_num_in_edges(v) == Cardinality({ e \in edges : e[2] = v })
get_num_out_edges(v) == Cardinality({ e \in edges : e[1] = v })

\* neighbours in edge-list order (ascending ids), IN_EDGE then OUT_EDGE
InNeighbours(v) == SetToSeq({ e[1] : e \in { f \in edges : f[2] = v } })
OutNeighbours(v) == SetToSeq({ e[2] : e \in { f \in edges : f[1] = v } })

\* graph_engine::get_num_vertices
get_num_vertices == num_vertices

\* the ids of the vertices of the graph
VertexIds == 0 .. (get_num_vertices - 1)

\* the partitioner (modulo by the number of partitions): global id to
\* partition, global id to local id, and back
part_of(v) == v % NumWorkers

\* mutant: the local id is the global id
local_of_global(v) == v

local_of(v) == v \div NumWorkers

global_of(part_id, id) == id * NumWorkers + part_id

\* mutant: every partition holds every vertex
LocalVerticesShared(w) == VertexIds

LocalVertices(w) == { v \in VertexIds : part_of(v) = w }

\* the number of vertices held by partition w
NumLocal(w) == Cardinality(LocalVertices(w))

\* graph_engine::get_vertex(vertex_id_t): a vertex object is identified by
\* the global id of its slot in the vertex state store
get_vertex(id) == id

\* graph_engine::get_vertex(int part_id, local_vid_t id)
get_vertex_part(part_id, id) == global_of(part_id, id)

\* the size of a vertex in the graph file: a header and one vertex id for
\* every in-edge and every out-edge
get_ext_mem_size(v) ==
    vertex_header_size + sizeof_vertex_id_t * (get_num_in_edges(v) + get_num_out_edges(v))

\* graph_engine::get_vertex_edges
get_vertex_edges(v) ==
    (get_ext_mem_size(v) - vertex_header_size) \div sizeof_vertex_id_t

\* ------------------------------------------------------------ k-core client
\* vsize_t decrement: unsigned, wraps at 0
DecVSize(d) == IF d = 0 THEN VSizeMax ELSE d - 1

\* kcore_vertex constructor: degree = in-edges + out-edges of the index
InitDegree(v) == get_num_in_edges(v) + get_num_out_edges(v)

\* activate_k_filter::keep, with min = CURRENT_K
keep(v) == get_num_in_edges(v) + get_num_out_edges(v) < CURRENT_K

\* mutant: the deleted flag is not set
_delete_not_recorded(v) == deleted

\* kcore_vertex::_delete
_delete(v) == [deleted EXCEPT ![v] = TRUE]

\* mutant: a deleted vertex requests its adjacency as well
run_requests_when_deleted(v) == degree[v] <= CURRENT_K

\* kcore_vertex::run(prog): TRUE iff the vertex requests its own adjacency
run_requests(v) ==
    IF degree[v] > CURRENT_K THEN FALSE
    ELSE ~deleted[v]

\* mutant: the degree test is off by one
run_adj_deletes_below(v) ==
    IF deleted[v] THEN FALSE
    ELSE degree[v] + 1 < CURRENT_K

\* kcore_vertex::run(prog, vertex): TRUE iff the vertex deletes itself and
\* multicasts the deletion
run_adj_deletes(v) ==
    IF deleted[v] THEN FALSE
    ELSE degree[v] < CURRENT_K

\* mutant: the OUT_EDGE multicast is left out
multicast_in_edges_only(v) == InNeighbours(v)

\* the two multicasts of kcore_vertex::run(prog, vertex): one expansion per
\* IN_EDGE neighbour, then one per OUT_EDGE neighbour
multicast_delete_msg(v) == InNeighbours(v) \o OutNeighbours(v)

\* mutant: a deletion message leaves the degree as it is
run_on_message_ignored(v) == degree[v]

\* kcore_vertex::run_on_message: the degree after one deletion message
run_on_message(v) == IF deleted[v] THEN degree[v] ELSE DecVSize(degree[v])

\* count_vertex_query::run, from the clone's num to its num after vertex v
count_vertex_query_run(num, v) == IF deleted[v] THEN num + 1 ELSE num

\* mutant: merge assigns instead of adding
count_vertex_query_merge_assign(num, other) == other

\* count_vertex_query::merge, from num and the merged clone's num
count_vertex_query_merge(num, other) == num + other

\* mutant: run keeps the degree of the last vertex, not the largest
max_degree_query_run_last(max_degree, v) == get_vertex_edges(v)

\* max_degree_query::run
max_degree_query_run(max_degree, v) ==
    IF get_vertex_edges(v) > max_degree THEN get_vertex_edges(v)
    ELSE max_degree

\* max_degree_query::merge
max_degree_query_merge(max_degree, other) ==
    IF max_degree < other THEN other ELSE max_degree

\* vertex_query::run and vertex_query::merge of the query under way
query_run(val, v) ==
    IF qkind = "max" THEN max_degree_query_run(val, v)
    ELSE count_vertex_query_run(val, v)

query_merge(val, other) ==
    IF qkind = "max" THEN max_degree_query_merge(val, other)
    ELSE count_vertex_query_merge(val, other)

\* ------------------------------------------------------------------ engine
\* mutant: the counter is decremented twice for each processed vertex
process_vertices_twice(num) ==
    remaining' = IF remaining >= 2 * num THEN remaining - 2 * num ELSE VSizeMax

\* graph_engine::process_vertices(num): the atomic size_t counter is unsigned
process_vertices(num) ==
    remaining' = IF remaining >= num THEN remaining - num ELSE VSizeMax

\* graph_engine::get_num_remaining_vertices
get_num_remaining_vertices == remaining

\* mutant: duplicates of the next queue are kept
CoalesceKeepAll(q) == q

RECURSIVE Coalesce(_)
\* the next queue with every vertex kept once, in first-activation order
Coalesce(q) ==
    IF q = << >> THEN << >>
    ELSE LET r == Coalesce(SubSeq(q, 1, Len(q) - 1))
             x == q[Len(q)]
         IN IF x \in Range(r) THEN r ELSE Append(r, x)

\* mutant: the barrier is initialised for one thread too few
BarrierOneShort(n) == n + 1 >= NumWorkers - 1

\* a pthread barrier over all workers opens when the last one arrives
BarrierFull(n) == n + 1 = NumWorkers

Msg(w, d) ==
    [src |-> w, dst |-> d, lvl |-> level, seq |-> sentCount[w][part_of(d)]]

\* query_on_all begins: the query passed in and one fresh clone per worker
\* (both query constructors set the value to 0)
BeginQuery(kind) ==
    /\ qkind' = kind
    /\ qpos' = [w \in Workers |-> 0]
    /\ qval' = [w \in Workers |-> 0]
    /\ qmerges' = [w \in Workers |-> 0]
    /\ qresult' = 0
    /\ qvisits' = [v \in Vertices |-> 0]

\* ------------------------------------------------- idle values of the layers
\* the null pointer of a block vector
NULL == -1

\* no block_exec_order has been created
NoOrder == [kind |-> "none", n |-> 0, hilbert_orders |-> << >>]

\* no block_compute_task has been created
NoTask == [exec_order |-> NoOrder, num_block_rows |-> 0, orig_off |-> 0,
           io_size |-> 0, off |-> 0, buf_size |-> 0]

NoMatrix == [is_fg |-> FALSE, nrows |-> 0, ncols |-> 0]
NoOperand == [kind |-> "none", rows |-> 0, cols |-> 0, in_mem |-> TRUE,
              layout |-> "row"]
NoResult == [ptr |-> "none", rows |-> 0, cols |-> 0]
NoArgv == [argc |-> 0, alg |-> "", k |-> 0, graph_ok |-> TRUE]

ProgramIdle ==
    /\ activate_next_itr = [w \in Workers |-> << >>]
    /\ explicitAt = {}

OrderIdle ==
    /\ use_hilbert_order = FALSE
    /\ grid = << 0, 0 >>
    /\ order = NoOrder
    /\ task = NoTask
    /\ blocks = << >>
    /\ executed = << >>
    /\ exec_ret = "none"
    /\ mpc = "idle"

FlashIdle ==
    /\ init_count = 0
    /\ io_system = FALSE
    /\ fm_calls = << >>

MulIdle ==
    /\ matrix = NoMatrix
    /\ mul_in = NoOperand
    /\ mul_ret = NoResult
    /\ num_computes = 0

CliIdle ==
    /\ cli_pc = "idle"
    /\ cli_argv = NoArgv
    /\ flash_graph = "none"
    /\ alg_ran = "none"
    /\ exit_status = -1

\* no deletion message has been delivered
CountIdle == msgsTo = [v \in Vertices |-> 0]

PermIdle ==
    /\ rp_num = 0
    /\ rp_stride = 0
    /\ rp_offset = << >>
    /\ rp_i = 0
    /\ rp_pc = "idle"

BalIdle ==
    /\ bw_offsets = << >>
    /\ bw_curr = 0
    /\ chunks_taken = 0
    /\ chunks_total = 0
    /\ bw_rets = << >>
    /\ bw_chunk = {}
    /\ bw_handed = << >>
    /\ bw_may_read = FALSE

ThreadIdle ==
    /\ tpc = << >>
    /\ tcount = << >>
    /\ tcalls = 0

RunIdle ==
    /\ brows = << >>
    /\ its = << >>
    /\ reads = {}
    /\ sb_col_idx = 0
    /\ has_blocks = FALSE
    /\ notify_count = 0

SpmvIdle ==
    /\ sp_matrix = {}
    /\ sp_kind = "none"
    /\ sp_in = << >>
    /\ sp_out = << >>
    /\ sp_block_size = 1
    /\ sp_strip = 1
    /\ sp_its = << >>
    /\ sp_sb = << >>
    /\ sp_pc = << >>

LateIdle == PermIdle /\ BalIdle /\ ThreadIdle /\ RunIdle /\ SpmvIdle

\* the k-core program alone: the other programs are not running
LayersIdle ==
    /\ ProgramIdle /\ OrderIdle /\ FlashIdle /\ MulIdle /\ CliIdle
    /\ LateIdle /\ CountIdle

\* ------------------------------------------------------------------- k-core
\* main before "Set kmax", the engine constructed over the graph
EngineStart ==
    /\ kmax = 0
    /\ CURRENT_K = 0
    /\ mainpc = "kmax"
    /\ printed = << >>
    /\ io_errors = {}
    /\ qkind = "none"
    /\ qpos = [w \in Workers |-> 0]
    /\ qval = [w \in Workers |-> 0]
    /\ qmerges = [w \in Workers |-> 0]
    /\ qresult = 0
    /\ qvisits = [v \in Vertices |-> 0]
    /\ execBy = [v \in Vertices |-> {}]
    /\ deleted = [v \in Vertices |-> FALSE]
    /\ degree = [v \in Vertices |-> InitDegree(v)]
    /\ level = 0
    /\ is_complete = FALSE
    /\ remaining = 0
    /\ tot_activates = 0
    /\ arrived1 = 0 /\ open1 = {}
    /\ arrived2 = 0 /\ open2 = {}
    /\ pc = [w \in Workers |-> "done"]
    /\ curr = [w \in Workers |-> << >>]
    /\ next = [w \in Workers |-> << >>]
    /\ inflight = [w \in Workers |-> {}]
    /\ sendq = [w \in Workers |-> << >>]
    /\ sender = [w \in Workers |-> 0]
    /\ ran = [w \in Workers |-> << >>]
    /\ outbuf = [w \in Workers |-> [d \in Workers |-> << >>]]
    /\ inbox = [w \in Workers |-> << >>]
    /\ runCount = [v \in Vertices |-> 0]
    /\ wlevel = [w \in Workers |-> 0]
    /\ notified = [w \in Workers |-> -1]
    /\ sentCount = [w \in Workers |-> [d \in Workers |-> 0]]
    /\ pending = {}
    /\ delLevel = [v \in Vertices |-> -2]
    /\ deliv = [w \in Workers |-> << >>]

Init ==
    /\ \E g \in GraphFiles : num_vertices = g.n /\ edges = g.e
    /\ \E c \in CommandLines : argc = c.argc /\ kmin = c.kmin /\ argv4 = c.kmax
    /\ EngineStart
    /\ LayersIdle

\* the engine of a process that runs one of the other programs: no graph is
\* loaded and no worker runs
EngineIdle ==
    /\ num_vertices = 0 /\ edges = {}
    /\ argc = 5 /\ kmin = 1 /\ argv4 = 1
    /\ EngineStart

\* main, "Set kmax": kmax is argv[4] when given; otherwise
\* query_on_all(max_degree_query) is started to compute it
SetKmax ==
    /\ mainpc = "kmax"
    /\ IF argc > 4
       THEN /\ kmax' = argv4
            /\ CURRENT_K' = kmin
            /\ mainpc' = "start"
            /\ UNCHANGED queryVars
       ELSE /\ BeginQuery("max")
            /\ mainpc' = "query"
            /\ UNCHANGED << kmax, CURRENT_K >>
    /\ UNCHANGED inputVars
    /\ UNCHANGED layerVars
    /\ UNCHANGED kcoreVars
    /\ UNCHANGED histVars
    /\ UNCHANGED << printed, io_errors, level, is_complete, remaining,
                    tot_activates, arrived1, open1, arrived2, open2, pc, curr,
                    next, inflight, sendq, sender, ran, outbuf, inbox >>

\* query_on_all: worker w's clone runs on the next vertex of its partition
QueryRun(w) ==
    /\ mainpc = "query"
    /\ qpos[w] < NumLocal(w)
    /\ LET v == get_vertex_part(w, qpos[w]) IN
        /\ qval' = [qval EXCEPT ![w] = query_run(@, v)]
        /\ qvisits' = [qvisits EXCEPT ![v] = @ + 1]
    /\ qpos' = [qpos EXCEPT ![w] = @ + 1]
    /\ UNCHANGED mainVars
    /\ UNCHANGED layerVars
    /\ UNCHANGED kcoreVars
    /\ UNCHANGED histVars
    /\ UNCHANGED << qkind, qmerges, qresult, io_errors, level, is_complete,
                    remaining, tot_activates, arrived1, open1, arrived2, open2,
                    pc, curr, next, inflight, sendq, sender, ran, outbuf,
                    inbox >>

\* mutant: a clone may be merged again
NotYetMergedAlways(w) == TRUE

\* the clone of worker w has not been merged into the query
NotYetMerged(w) == qmerges[w] = 0

\* query_on_all: once every clone has visited its partition, the clones are
\* merged into the query, in any order
QueryMerge(w) ==
    /\ mainpc = "query"
    /\ \A x \in Workers : qpos[x] = NumLocal(x)
    /\ NotYetMerged(w)
    /\ qmerges[w] < 2
    /\ qresult' = query_merge(qresult, qval[w])
    /\ qmerges' = [qmerges EXCEPT ![w] = @ + 1]
    /\ UNCHANGED mainVars
    /\ UNCHANGED layerVars
    /\ UNCHANGED kcoreVars
    /\ UNCHANGED histVars
    /\ UNCHANGED << qkind, qpos, qval, qvisits, io_errors, level, is_complete,
                    remaining, tot_activates, arrived1, open1, arrived2, open2,
                    pc, curr, next, inflight, sendq, sender, ran, outbuf,
                    inbox >>

\* every clone has been merged: query_on_all returns
QueryReturned == \A w \in Workers : qpos[w] = NumLocal(w) /\ qmerges[w] >= 1

\* main: kmax = get_max_degree() of the merged query, then the k loop begins
KmaxFromQuery ==
    /\ mainpc = "query"
    /\ qkind = "max"
    /\ QueryReturned
    /\ kmax' = qresult
    /\ CURRENT_K' = kmin
    /\ mainpc' = "start"
    /\ qkind' = "none"
    /\ UNCHANGED inputVars
    /\ UNCHANGED layerVars
    /\ UNCHANGED kcoreVars
    /\ UNCHANGED histVars
    /\ UNCHANGED << printed, qpos, qval, qmerges, qresult, qvisits, io_errors,
                    level, is_complete, remaining, tot_activates, arrived1,
                    open1, arrived2, open2, pc, curr, next, inflight, sendq,
                    sender, ran, outbuf, inbox >>

\* main: graph->start(filter) of the round for CURRENT_K.  start seeds every
\* worker's next queue with the vertices the filter keeps and sets level = 0.
Start ==
    /\ mainpc = "start"
    /\ CURRENT_K <= kmax
    /\ mainpc' = "wait"
    /\ next' = [w \in Workers |->
                  SetToSeq({ v \in LocalVertices(w) : keep(v) })]
    /\ level' = 0
    /\ is_complete' = FALSE
    /\ pc' = [w \in Workers |-> "deliver"]
    /\ runCount' = [v \in Vertices |-> 0]
    /\ wlevel' = [w \in Workers |-> 0]
    /\ notified' = [w \in Workers |-> -1]
    /\ deliv' = [w \in Workers |-> << >>]
    /\ delLevel' = [v \in Vertices |-> -2]
    /\ UNCHANGED inputVars
    /\ UNCHANGED layerVars
    /\ UNCHANGED kcoreVars
    /\ UNCHANGED queryVars
    /\ UNCHANGED << kmax, CURRENT_K, printed, io_errors, remaining,
                    tot_activates, arrived1, open1, arrived2, open2, curr,
                    inflight, sendq, sender, ran, outbuf, inbox, sentCount,
                    pending, execBy >>

\* main: wait4complete returns once is_complete is set and the workers have
\* left the loop; then query_on_all(count_vertex_query) is started
Wait4Complete ==
    /\ mainpc = "wait"
    /\ is_complete
    /\ \A w \in Workers : pc[w] = "done"
    /\ BeginQuery("count")
    /\ mainpc' = "query"
    /\ UNCHANGED inputVars
    /\ UNCHANGED layerVars
    /\ UNCHANGED kcoreVars
    /\ UNCHANGED histVars
    /\ UNCHANGED << kmax, CURRENT_K, printed, io_errors, level, is_complete,
                    remaining, tot_activates, arrived1, open1, arrived2,
                    open2, pc, curr, next, inflight, sendq, sender, ran,
                    outbuf, inbox >>

\* main: in_k_core = get_num() of the merged query, the result line is
\* printed and the loop moves to the next k
PrintResult ==
    /\ mainpc = "query"
    /\ qkind = "count"
    /\ QueryReturned
    /\ printed' = Append(printed, << CURRENT_K, qresult >>)
    /\ CURRENT_K' = CURRENT_K + 1
    /\ mainpc' = "start"
    /\ qkind' = "none"
    /\ UNCHANGED inputVars
    /\ UNCHANGED layerVars
    /\ UNCHANGED kcoreVars
    /\ UNCHANGED histVars
    /\ UNCHANGED << kmax, qpos, qval, qmerges, qresult, qvisits, io_errors,
                    level, is_complete, remaining, tot_activates, arrived1,
                    open1, arrived2, open2, pc, curr, next, inflight, sendq,
                    sender, ran, outbuf, inbox >>

\* main: the k loop ends
Exit ==
    /\ mainpc = "start"
    /\ CURRENT_K > kmax
    /\ mainpc' = "exit"
    /\ UNCHANGED inputVars
    /\ UNCHANGED layerVars
    /\ UNCHANGED kcoreVars
    /\ UNCHANGED queryVars
    /\ UNCHANGED histVars
    /\ UNCHANGED << kmax, CURRENT_K, printed, io_errors, level, is_complete,
                    remaining, tot_activates, arrived1, open1, arrived2,
                    open2, pc, curr, next, inflight, sendq, sender, ran,
                    outbuf, inbox >>

\* ------------------------------------------------------------- worker loop
\* mutant: the in-flight cap is not consulted
CanDispatchAlways(w) == TRUE

\* backpressure: a worker pulls from current only below the in-flight cap
CanDispatch(w) == Cardinality(inflight[w]) < MaxProcessingVertices

\* mutant: the capacity test is off by one
HasRoomOffByOne(b) == Len(b) + 1 < MsgBufCap

\* one (src, dst) buffer has room for another message
HasRoom(b) == Len(b) < MsgBufCap

\* the buffer left behind by a flush
Flushed(b) == << >>

\* mutant: a flushed buffer is put in front of the inbox
PushInboxFront(box, b) == b \o box

\* an inbox after a flushed buffer was pushed to it
PushInbox(box, b) == box \o b

\* mutant: the deliver phase may end with messages left in the inbox
InboxDrainedEarly(w) == TRUE

\* the deliver phase ends when the inbox holds no message
InboxDrained(w) == inbox[w] = << >>

\* mutant: the verdict looks at the caller's own queue only
NoMoreWorkOwn(total, own) == own = 0

\* progress_next_level's verdict, from the active count summed over all
\* workers (total) and the caller's own (own)
NoMoreWork(total, own) == total = 0

\* mutant: vertices are dispatched after an I/O error as well
DispatchingAlways == TRUE

\* an adjacency read has failed: the engine is in its failure state
failed == io_errors # {}

\* the engine dispatches vertices as long as no adjacency read has failed
Dispatching == ~failed

\* step 3 of the worker loop: run(program) on the head of current
RunVertex(w) ==
    /\ pc[w] = "run"
    /\ curr[w] # << >>
    /\ CanDispatch(w)
    /\ Dispatching
    /\ LET v == Head(curr[w]) IN
        /\ curr' = [curr EXCEPT ![w] = Tail(@)]
        /\ runCount' = [runCount EXCEPT ![v] = @ + 1]
        /\ execBy' = [execBy EXCEPT ![v] = @ \cup {w}]
        /\ ran' = [ran EXCEPT ![w] = Append(@, v)]
        /\ IF run_requests(v)
           THEN /\ inflight' = [inflight EXCEPT ![w] = @ \cup {v}]
                /\ UNCHANGED remaining
           ELSE /\ process_vertices(1)
                /\ UNCHANGED inflight
    /\ UNCHANGED mainVars
    /\ UNCHANGED layerVars
    /\ UNCHANGED queryVars
    /\ UNCHANGED io_errors
    /\ UNCHANGED kcoreVars
    /\ UNCHANGED << level, is_complete, tot_activates, arrived1, open1,
                    arrived2, open2, pc, next, sendq, sender, outbuf, inbox,
                    wlevel, notified, sentCount, pending, delLevel, deliv >>

\* step 4: the adjacency read of v completes, run(program, adjacency_view)
IOComplete(w, v) ==
    /\ pc[w] = "run"
    /\ v \in inflight[w]
    /\ v \notin io_errors
    /\ IF run_adj_deletes(v)
       THEN /\ deleted' = _delete(v)
            /\ sendq' = [sendq EXCEPT ![w] = multicast_delete_msg(v)]
            /\ sender' = [sender EXCEPT ![w] = v]
            /\ pc' = [pc EXCEPT ![w] = "send"]
            /\ UNCHANGED << inflight, remaining >>
       ELSE /\ inflight' = [inflight EXCEPT ![w] = @ \ {v}]
            /\ process_vertices(1)
            /\ UNCHANGED << deleted, sendq, sender, pc >>
    /\ delLevel' = [delLevel EXCEPT ![v] =
                      IF deleted'[v] /\ ~deleted[v] THEN level ELSE @]
    /\ execBy' = [execBy EXCEPT ![v] = @ \cup {w}]
    /\ UNCHANGED mainVars
    /\ UNCHANGED layerVars
    /\ UNCHANGED queryVars
    /\ UNCHANGED io_errors
    /\ UNCHANGED << degree, level, is_complete, tot_activates, arrived1,
                    open1, arrived2, open2, curr, next, ran, outbuf, inbox,
                    runCount, wlevel, notified, sentCount, pending,
                    deliv >>

\* send: one expansion of the multicast is copied into the pair's buffer
SendMsg(w) ==
    /\ pc[w] = "send"
    /\ sendq[w] # << >>
    /\ LET d == Head(sendq[w])
           dw == part_of(d)
       IN /\ HasRoom(outbuf[w][dw])
          /\ outbuf' = [outbuf EXCEPT ![w][dw] = Append(@, Msg(w, d))]
          /\ sentCount' = [sentCount EXCEPT ![w][dw] = @ + 1]
          /\ pending' = pending \cup { Msg(w, d) }
    /\ sendq' = [sendq EXCEPT ![w] = Tail(@)]
    /\ UNCHANGED mainVars
    /\ UNCHANGED layerVars
    /\ UNCHANGED queryVars
    /\ UNCHANGED io_errors
    /\ UNCHANGED kcoreVars
    /\ UNCHANGED << level, is_complete, remaining, tot_activates, arrived1,
                    open1, arrived2, open2, pc, curr, next, inflight, sender,
                    ran, inbox, runCount, wlevel, notified, delLevel,
                    deliv, execBy >>

\* send finds the pair's buffer full: the sender blocks until it is flushed
SendBlocked(w) ==
    /\ pc[w] = "send"
    /\ sendq[w] # << >>
    /\ ~HasRoom(outbuf[w][part_of(Head(sendq[w]))])
    /\ pc' = [pc EXCEPT ![w] = "blocked"]
    /\ UNCHANGED mainVars
    /\ UNCHANGED layerVars
    /\ UNCHANGED queryVars
    /\ UNCHANGED io_errors
    /\ UNCHANGED kcoreVars
    /\ UNCHANGED << level, is_complete, remaining, tot_activates, arrived1,
                    open1, arrived2, open2, curr, next, inflight, sendq,
                    sender, ran, outbuf, inbox >>
    /\ UNCHANGED histVars

\* the induced flush: the full buffer is pushed to the destination's inbox
FlushFull(w) ==
    /\ pc[w] = "blocked"
    /\ LET dw == part_of(Head(sendq[w])) IN
        /\ inbox' = [inbox EXCEPT ![dw] = PushInbox(@, outbuf[w][dw])]
        /\ outbuf' = [outbuf EXCEPT ![w][dw] = Flushed(@)]
    /\ pc' = [pc EXCEPT ![w] = "send"]
    /\ UNCHANGED mainVars
    /\ UNCHANGED layerVars
    /\ UNCHANGED queryVars
    /\ UNCHANGED io_errors
    /\ UNCHANGED kcoreVars
    /\ UNCHANGED << level, is_complete, remaining, tot_activates, arrived1,
                    open1, arrived2, open2, curr, next, inflight, sendq,
                    sender, ran, runCount, wlevel, notified, sentCount,
                    pending, delLevel, deliv, execBy >>

\* the multicast is over: the vertex has completed (step 5)
SendDone(w) ==
    /\ pc[w] = "send"
    /\ sendq[w] = << >>
    /\ inflight' = [inflight EXCEPT ![w] = @ \ {sender[w]}]
    /\ process_vertices(1)
    /\ pc' = [pc EXCEPT ![w] = "run"]
    /\ UNCHANGED mainVars
    /\ UNCHANGED layerVars
    /\ UNCHANGED queryVars
    /\ UNCHANGED io_errors
    /\ UNCHANGED kcoreVars
    /\ UNCHANGED << level, is_complete, tot_activates, arrived1, open1,
                    arrived2, open2, curr, next, sendq, sender, ran, outbuf,
                    inbox >>
    /\ UNCHANGED histVars

\* the local queue is drained and no continuation is parked: the worker
\* calls notify_iteration_end on every vertex that was active in the level
\* (compute_vertex::notify_iteration_end has an empty body)
EndIteration(w) ==
    /\ pc[w] = "run"
    /\ curr[w] = << >>
    /\ inflight[w] = {}
    /\ pc' = [pc EXCEPT ![w] = "notify"]
    /\ ran' = [ran EXCEPT ![w] = << >>]
    /\ notified' = [notified EXCEPT ![w] = wlevel[w]]
    /\ execBy' = [v \in Vertices |->
                    IF v \in Range(ran[w]) THEN execBy[v] \cup {w} ELSE execBy[v]]
    /\ UNCHANGED mainVars
    /\ UNCHANGED layerVars
    /\ UNCHANGED queryVars
    /\ UNCHANGED io_errors
    /\ UNCHANGED kcoreVars
    /\ UNCHANGED << level, is_complete, remaining, tot_activates, arrived1,
                    open1, arrived2, open2, curr, next, inflight, sendq,
                    sender, outbuf, inbox, runCount, wlevel, sentCount,
                    pending, delLevel, deliv >>

\* flush(): every local buffer is pushed to its destination's inbox, then the
\* worker waits at barrier 1; the last worker to arrive opens it and the
\* level advances
FlushMsgs(w) ==
    /\ pc[w] = "notify"
    /\ inbox' = [d \in Workers |-> PushInbox(inbox[d], outbuf[w][d])]
    /\ outbuf' = [outbuf EXCEPT ![w] = [d \in Workers |-> Flushed(outbuf[w][d])]]
    /\ IF BarrierFull(arrived1)
       THEN /\ arrived1' = 0
            /\ open1' = Workers
            /\ level' = level + 1
       ELSE /\ arrived1' = arrived1 + 1
            /\ UNCHANGED << open1, level >>
    /\ pc' = [pc EXCEPT ![w] = "b1"]
    /\ UNCHANGED mainVars
    /\ UNCHANGED layerVars
    /\ UNCHANGED queryVars
    /\ UNCHANGED io_errors
    /\ UNCHANGED kcoreVars
    /\ UNCHANGED << is_complete, remaining, tot_activates, arrived2, open2,
                    curr, next, inflight, sendq, sender, ran, runCount,
                    wlevel, notified, sentCount, pending, delLevel,
                    deliv, execBy >>

\* the worker is released from barrier 1 and starts the next level
LeaveBarrier1(w) ==
    /\ pc[w] = "b1"
    /\ w \in open1
    /\ open1' = open1 \ {w}
    /\ pc' = [pc EXCEPT ![w] = "deliver"]
    /\ wlevel' = [wlevel EXCEPT ![w] = @ + 1]
    /\ sentCount' = [sentCount EXCEPT ![w] = [d \in Workers |-> 0]]
    /\ deliv' = [deliv EXCEPT ![w] = << >>]
    /\ runCount' = [v \in Vertices |->
                      IF part_of(v) = w THEN 0 ELSE runCount[v]]
    /\ UNCHANGED mainVars
    /\ UNCHANGED layerVars
    /\ UNCHANGED queryVars
    /\ UNCHANGED io_errors
    /\ UNCHANGED kcoreVars
    /\ UNCHANGED << level, is_complete, remaining, tot_activates, arrived1,
                    arrived2, open2, curr, next, inflight, sendq, sender, ran,
                    outbuf, inbox, notified, pending, delLevel, execBy >>

\* step 1: the head of the inbox is delivered to run_on_message of its
\* destination, which becomes active in this level
Deliver(w) ==
    /\ pc[w] = "deliver"
    /\ inbox[w] # << >>
    /\ LET m == Head(inbox[w]) IN
        /\ degree' = [degree EXCEPT ![m.dst] = run_on_message(m.dst)]
        /\ next' = [next EXCEPT ![w] = Append(@, m.dst)]
        /\ pending' = pending \ {m}
        /\ deliv' = [deliv EXCEPT ![w] = Append(@,
                        [src |-> m.src, dst |-> m.dst, lvl |-> m.lvl,
                         seq |-> m.seq, at |-> level,
                         afterRun |-> runCount[m.dst] > 0,
                         fresh |-> m \in pending])]
        /\ execBy' = [execBy EXCEPT ![m.dst] = @ \cup {w}]
        /\ msgsTo' = [msgsTo EXCEPT ![m.dst] = @ + 1]
    /\ inbox' = [inbox EXCEPT ![w] = Tail(@)]
    /\ UNCHANGED mainVars
    /\ UNCHANGED quietVars
    /\ UNCHANGED queryVars
    /\ UNCHANGED io_errors
    /\ UNCHANGED << deleted, level, is_complete, remaining, tot_activates,
                    arrived1, open1, arrived2, open2, pc, curr, inflight,
                    sendq, sender, ran, outbuf, runCount, wlevel, notified,
                    sentCount, delLevel >>

\* progress_next_level, once every message of the inbox has been delivered:
\* the worker swaps its queues (next, coalesced, becomes current) and waits
\* at barrier 2; the last worker to arrive publishes the active count of
\* the level and sets is_complete when it is 0
Swap(w) ==
    /\ pc[w] = "deliver"
    /\ InboxDrained(w)
    /\ curr' = [curr EXCEPT ![w] = Coalesce(next[w])]
    /\ next' = [next EXCEPT ![w] = << >>]
    /\ LET n == tot_activates + Len(Coalesce(next[w])) IN
        IF BarrierFull(arrived2)
        THEN /\ arrived2' = 0
             /\ open2' = Workers
             /\ remaining' = n
             /\ is_complete' = NoMoreWork(n, Len(Coalesce(next[w])))
             /\ tot_activates' = 0
        ELSE /\ arrived2' = arrived2 + 1
             /\ tot_activates' = n
             /\ UNCHANGED << open2, remaining, is_complete >>
    /\ pc' = [pc EXCEPT ![w] = "b2"]
    /\ UNCHANGED mainVars
    /\ UNCHANGED layerVars
    /\ UNCHANGED queryVars
    /\ UNCHANGED io_errors
    /\ UNCHANGED kcoreVars
    /\ UNCHANGED << level, arrived1, open1, inflight, sendq, sender, ran,
                    outbuf, inbox >>
    /\ UNCHANGED histVars

\* the worker is released from barrier 2: it dispatches the level, or leaves
\* the loop when progress_next_level returned true
LeaveBarrier2(w) ==
    /\ pc[w] = "b2"
    /\ w \in open2
    /\ open2' = open2 \ {w}
    /\ pc' = [pc EXCEPT ![w] = IF is_complete THEN "done" ELSE "run"]
    /\ UNCHANGED mainVars
    /\ UNCHANGED layerVars
    /\ UNCHANGED queryVars
    /\ UNCHANGED io_errors
    /\ UNCHANGED kcoreVars
    /\ UNCHANGED << level, is_complete, remaining, tot_activates, arrived1,
                    open1, arrived2, curr, next, inflight, sendq, sender, ran,
                    outbuf, inbox >>
    /\ UNCHANGED histVars

WorkerStep(w) ==
    \/ RunVertex(w)
    \/ \E v \in Vertices : IOComplete(w, v)
    \/ SendMsg(w)
    \/ SendBlocked(w)
    \/ FlushFull(w)
    \/ SendDone(w)
    \/ EndIteration(w)
    \/ FlushMsgs(w)
    \/ LeaveBarrier1(w)
    \/ Deliver(w)
    \/ Swap(w)
    \/ LeaveBarrier2(w)

\* a step of the query_on_all under way
QueryStep(w) ==
    \/ QueryRun(w)
    \/ QueryMerge(w)

Next ==
    \/ SetKmax
    \/ KmaxFromQuery
    \/ Start
    \/ Wait4Complete
    \/ PrintResult
    \/ Exit
    \/ \E w \in Workers : WorkerStep(w)
    \/ \E w \in Workers : QueryStep(w)

Spec == Init /\ [][Next]_vars

\* the scheduler runs some thread that can take a step, and every submitted
\* read completes: the engine never stops while a step is possible
FairSpec == Spec /\ WF_vars(Next)

\* ---------------------------------------------------------------- I/O errors
\* the adjacency read requested by v fails: the error is fatal for the run
IOFail(w, v) ==
    /\ pc[w] = "run"
    /\ v \in inflight[w]
    /\ ~failed
    /\ io_errors' = io_errors \cup {v}
    /\ UNCHANGED mainVars
    /\ UNCHANGED layerVars
    /\ UNCHANGED kcoreVars
    /\ UNCHANGED queryVars
    /\ UNCHANGED histVars
    /\ UNCHANGED << level, is_complete, remaining, tot_activates, arrived1,
                    open1, arrived2, open2, pc, curr, next, inflight, sendq,
                    sender, ran, outbuf, inbox >>

\* the level is aborted: a worker that sees the failure leaves its loop,
\* wherever it is, without finishing or retrying the level
Abort(w) ==
    /\ failed
    /\ pc[w] # "done"
    /\ pc' = [pc EXCEPT ![w] = "done"]
    /\ UNCHANGED mainVars
    /\ UNCHANGED layerVars
    /\ UNCHANGED kcoreVars
    /\ UNCHANGED queryVars
    /\ UNCHANGED histVars
    /\ UNCHANGED << io_errors, level, is_complete, remaining, tot_activates,
                    arrived1, open1, arrived2, open2, curr, next, inflight,
                    sendq, sender, ran, outbuf, inbox >>

\* main: wait4complete returns with the error once the workers have left
\* their loops; wait4complete is declared void, so the error reaches main as
\* a failure of the call and the k loop is not continued
Wait4CompleteError ==
    /\ mainpc = "wait"
    /\ failed
    /\ \A w \in Workers : pc[w] = "done"
    /\ mainpc' = "error"
    /\ UNCHANGED inputVars
    /\ UNCHANGED layerVars
    /\ UNCHANGED kcoreVars
    /\ UNCHANGED queryVars
    /\ UNCHANGED histVars
    /\ UNCHANGED << kmax, CURRENT_K, printed, io_errors, level, is_complete,
                    remaining, tot_activates, arrived1, open1, arrived2,
                    open2, pc, curr, next, inflight, sendq, sender, ran,
                    outbuf, inbox >>

FaultNext ==
    \/ Next
    \/ \E w \in Workers : \E v \in Vertices : IOFail(w, v)
    \/ \E w \in Workers : Abort(w)
    \/ Wait4CompleteError

\* the program with adjacency reads that may fail, under the scheduling of
\* FairSpec
FaultSpec == Init /\ [][FaultNext]_vars /\ WF_vars(FaultNext)

\* ------------------------------------------------------- property helpers
\* the worker is executing run callbacks of its level
RunPhase(w) == pc[w] \in {"run", "send", "blocked"}

\* the worker has delivered every message of its level and has not yet
\* started the next one
Delivered(w) == pc[w] \in {"b2", "run", "send", "blocked", "notify", "b1", "done"}

\* how often message m sits in a buffer or an inbox
Occurrences(m) ==
    Cardinality({ x \in Workers \X Workers \X (1 .. MsgBufCap) :
                    /\ x[3] <= Len(outbuf[x[1]][x[2]])
                    /\ outbuf[x[1]][x[2]][x[3]] = m })
    + SumCard([w \in Workers |-> { i \in DOMAIN inbox[w] : inbox[w][i] = m }],
              Workers)

\* the deliveries to vertex v that worker w made in its level
DeliveredTo(w, v) == { i \in DOMAIN deliv[w] : deliv[w][i].dst = v }

\* the vertices deleted in level l of this round
DeletedIn(l) == { u \in Vertices : delLevel[u] = l }

RECURSIVE ExpansionsTo(_, _)
\* the multicast expansions addressed to v by the vertices of U: one per
\* in-edge and one per out-edge linking a vertex of U with v
ExpansionsTo(U, v) ==
    IF U = {} THEN 0
    ELSE LET u == CHOOSE x \in U : TRUE
         IN Cardinality({ e \in edges : e[1] = u /\ e[2] = v })
            + Cardinality({ e \in edges : e[1] = v /\ e[2] = u })
            + ExpansionsTo(U \ {u}, v)

\* ------------------------------------------------------------------ claims
\* C1: in every level run(program) is invoked at most once for each vertex,
\* also when the vertex was activated several times for that level.
C1_RunAtMostOncePerLevel == \A v \in Vertices : runCount[v] <= 1

\* a vertex that received two messages in a level has run in that level
C1_Witness ==
    \E v \in Vertices :
        /\ runCount[v] = 1
        /\ Cardinality(DeliveredTo(part_of(v), v)) >= 2

\* C2: every message sent in level L (every expansion of a multicast) is
\* delivered to run_on_message of its destination exactly once, in level
\* L + 1 and in no other level; none is lost or duplicated.
C2_ExactlyOnceInNextLevel ==
    /\ \A m \in pending : Occurrences(m) = 1
    /\ \A w \in Workers : Range(inbox[w]) \subseteq pending
    /\ \A w, d \in Workers : Range(outbuf[w][d]) \subseteq pending
    /\ \A w \in Workers : \A i \in DOMAIN deliv[w] :
          /\ deliv[w][i].fresh
          /\ deliv[w][i].at = deliv[w][i].lvl + 1
          /\ part_of(deliv[w][i].dst) = w
    /\ \A w \in Workers : Delivered(w) =>
          /\ \A m \in pending : part_of(m.dst) = w => m.lvl >= wlevel[w]
          /\ \A v \in LocalVertices(w) :
                Cardinality(DeliveredTo(w, v))
                    = ExpansionsTo(DeletedIn(wlevel[w] - 1), v)

\* a worker runs a level in which it delivered two messages
C2_Witness ==
    \E w \in Workers : pc[w] = "run" /\ Len(deliv[w]) >= 2

\* C3: within a level every run_on_message for a vertex completes before
\* run(program) is invoked for that vertex.
C3_MessagesBeforeRun ==
    /\ \A w \in Workers : \A i \in DOMAIN deliv[w] : ~deliv[w][i].afterRun
    /\ \A w \in Workers : RunPhase(w) =>
          \A m \in pending : part_of(m.dst) = w => m.lvl >= wlevel[w]

\* a vertex has run after a message was delivered to it in the same level
C3_Witness ==
    \E v \in Vertices :
        /\ runCount[v] = 1
        /\ DeliveredTo(part_of(v), v) # {}

\* C4: remaining_in_level is the number of vertices activated for the level
\* that have not completed: the sum of the current-queue lengths at dispatch,
\* one less per completed vertex, never below zero, and 0 exactly when every
\* current queue is drained (empty, with no continuation parked).
C4_RemainingCountsActive ==
    /\ [](get_num_remaining_vertices \in 0 .. NumVertices)
    /\ [](arrived2 = 0 =>
            /\ remaining = SumLen(curr, Workers) + SumCard(inflight, Workers)
            /\ (remaining = 0) <=>
                 (\A w \in Workers : curr[w] = << >> /\ inflight[w] = {}))
    /\ [](arrived2 > 0 =>
            /\ remaining = 0
            /\ tot_activates = SumLen(curr, Workers))
    /\ [][open2' = Workers /\ open2 # Workers =>
            remaining' = SumLen(curr', Workers)]_vars
    /\ [][remaining' # remaining =>
            \/ remaining' = remaining - 1
            \/ open2' = Workers /\ open2 # Workers]_vars

\* one vertex of the level has completed while another is still parked
C4_Witness ==
    /\ remaining >= 1
    /\ \E w \in Workers : inflight[w] # {}
    /\ SumLen(ran, Workers) > SumCard(inflight, Workers)
    /\ \E w \in Workers : pc[w] = "run"

\* C5: progress_next_level returns true, and is_complete is set, only at a
\* level boundary where no vertex is active for the upcoming level, no next
\* queue holds a vertex and no I/O is outstanding; when some vertex is active
\* it returns false and the level is dispatched.
C5_CompleteOnlyWhenQuiescent ==
    /\ [](is_complete =>
            /\ remaining = 0
            /\ \A w \in Workers :
                  /\ curr[w] = << >> /\ next[w] = << >>
                  /\ inflight[w] = {} /\ inbox[w] = << >>
                  /\ pc[w] \in {"b2", "done"})
    /\ [][open2' = Workers /\ open2 # Workers =>
            is_complete' = (SumLen(curr', Workers) = 0)]_vars
    /\ [](\A w \in Workers : pc[w] = "done" /\ mainpc = "wait" => is_complete)
    /\ [][\A w \in Workers : pc[w] = "b2" /\ pc'[w] # "b2" =>
            pc'[w] = IF is_complete THEN "done" ELSE "run"]_vars
    /\ [](\A w \in Workers : RunPhase(w) => ~is_complete)

\* the engine completes after a level that activated vertices for the next
C5_Witness == is_complete /\ level >= 2

\* the vertices deleted so far in this round
DeletedThisRound == { u \in Vertices : delLevel[u] >= 0 }

\* C6: a k-core round started with start(filter) reaches quiescence after
\* finitely many levels (every level but the last deletes a vertex), and
\* wait4complete returns, under fair scheduling.
C6_RoundTerminates ==
    /\ [](level <= Cardinality(DeletedThisRound) + 1)
    /\ (mainpc = "wait") ~> (mainpc = "start")

\* a round completes after a cascade of at least three levels
C6_Witness == mainpc = "wait" /\ is_complete /\ level >= 3

\* C7: no worker invokes run for a vertex of level L + 1 before every worker
\* has finished its notify_iteration_end calls of level L; workers executing
\* vertex callbacks are all in the same level.
C7_BarriersSeparateLevels ==
    /\ \A w \in Workers : RunPhase(w) =>
          \A x \in Workers : notified[x] >= wlevel[w] - 1
    /\ \A w, x \in Workers :
          /\ pc[w] \in {"deliver", "run", "send", "blocked", "notify"}
          /\ pc[x] \in {"deliver", "run", "send", "blocked", "notify"}
          => wlevel[w] = wlevel[x] /\ wlevel[w] = level

\* a worker runs vertices of level 1 or later while another worker has not
\* yet left barrier 2
C7_Witness ==
    \E w, x \in Workers :
        /\ RunPhase(w) /\ wlevel[w] >= 1 /\ ran[w] # << >>
        /\ pc[x] = "b2"

C10_InFlightCapped ==
    /\ [](\A w \in Workers : Cardinality(inflight[w]) <= MaxProcessingVertices)
    /\ [][\A w \in Workers :
            curr[w] # << >> /\ curr'[w] = Tail(curr[w]) =>
                Cardinality(inflight[w]) < MaxProcessingVertices]_vars
    /\ (\E w \in Workers : inflight[w] # {})
          ~> (\A w \in Workers : curr[w] = << >> /\ inflight[w] = {})

\* the cap is reached while the current queue still holds a vertex
C10_Witness ==
    \E w \in Workers :
        /\ pc[w] = "run"
        /\ Cardinality(inflight[w]) = MaxProcessingVertices
        /\ curr[w] # << >>

\* C11: every callback on a vertex (run(program), run(program, adjacency),
\* run_on_message, notify_iteration_end) is executed by the worker that owns
\* the vertex's partition, so no two workers execute callbacks on one vertex;
\* a worker's queues, parked reads and inbox hold its own vertices only.
C11_OwnerExecutes ==
    /\ \A v \in Vertices :
          /\ execBy[v] \subseteq { v % NumWorkers }
          /\ Cardinality(execBy[v]) <= 1
    /\ \A w \in Workers :
          /\ \A v \in Range(curr[w]) \cup Range(next[w]) \cup Range(ran[w])
                      \cup inflight[w] : v % NumWorkers = w
          /\ \A i \in DOMAIN inbox[w] : inbox[w][i].dst % NumWorkers = w

\* a message sent by another worker was delivered to a vertex that has since
\* run, while vertices of every partition have executed callbacks
C11_Witness ==
    /\ \A w \in Workers : \E v \in Vertices : execBy[v] = {w}
    /\ \E w \in Workers : \E i \in DOMAIN deliv[w] :
          /\ deliv[w][i].src # w
          /\ runCount[deliv[w][i].dst] = 1

\* C12: the partitioner is a bijection between the global ids of the graph
\* and the (part_id, local_id) pairs: global_of(part_of(id), local_of(id)) is
\* id, distinct ids have distinct pairs, every pair of a partition is the
\* pair of an id, and get_vertex(id) is get_vertex(part_of(id), local_of(id)).
C12_PartitionerBijection ==
    /\ \A id \in VertexIds :
          /\ part_of(id) \in Workers
          /\ local_of(id) \in 0 .. (NumLocal(part_of(id)) - 1)
          /\ global_of(part_of(id), local_of(id)) = id
          /\ get_vertex(id) = get_vertex_part(part_of(id), local_of(id))
    /\ \A a, b \in VertexIds :
          a # b => << part_of(a), local_of(a) >> # << part_of(b), local_of(b) >>
    /\ \A w \in Workers : \A l \in 0 .. (NumLocal(w) - 1) :
          /\ global_of(w, l) \in VertexIds
          /\ part_of(global_of(w, l)) = w
          /\ local_of(global_of(w, l)) = l
    /\ \A w \in Workers : \A l \in 0 .. (qpos[w] - 1) :
          qvisits[get_vertex_part(w, l)] >= 1

\* a query clone has reached, by (part_id, local_id), a vertex whose local
\* id differs from its global id
C12_Witness ==
    /\ mainpc = "query"
    /\ \E w \in Workers :
          /\ qpos[w] >= 2
          /\ qvisits[global_of(w, 1)] = 1
          /\ global_of(w, 1) # 1

NumDeleted == Cardinality({ v \in VertexIds : deleted[v] })

\* the largest in-degree plus out-degree of the graph, 0 without vertices
MaxDegree ==
    IF VertexIds = {} THEN 0
    ELSE LET D == { get_num_in_edges(v) + get_num_out_edges(v) : v \in VertexIds }
         IN CHOOSE d \in D : \A e \in D : e <= d

\* C14: query_on_all runs the query once on every vertex of the graph and
\* merges every clone once; the value it leaves in the query is the number
\* of deleted vertices (count_vertex_query) or the largest degree
\* (max_degree_query), whatever the order of the runs and of the merges.
C14_QueryOnAllOncePerVertex ==
    /\ \A v \in Vertices : qvisits[v] <= 1
    /\ \A w \in Workers : qmerges[w] <= 1
    /\ mainpc = "query" /\ QueryReturned =>
          /\ \A v \in Vertices : qvisits[v] = IF v \in VertexIds THEN 1 ELSE 0
          /\ \A w \in Workers : qmerges[w] = 1
          /\ qkind = "count" => qresult = NumDeleted
          /\ qkind = "max" => qresult = MaxDegree

\* count_vertex_query has returned after every clone counted a deleted
\* vertex of its own partition
C14_Witness ==
    /\ mainpc = "query" /\ qkind = "count"
    /\ QueryReturned
    /\ \A w \in Workers : qval[w] >= 1
    /\ qresult > qval[0]

\* C15: query_on_all(max_degree_query) yields the largest in-degree plus
\* out-degree over the vertices (0 for a graph without vertices), and a
\* command line without kmax runs the k loop up to that value.
C15_KmaxIsMaxDegree ==
    /\ mainpc = "query" /\ qkind = "max" /\ QueryReturned => qresult = MaxDegree
    /\ argc = 4 /\ mainpc \in {"start", "wait", "exit", "error"} =>
          /\ kmax = MaxDegree
          /\ num_vertices = 0 => kmax = 0
          /\ CURRENT_K \in kmin .. (IF kmin > kmax THEN kmin ELSE kmax + 1)
    /\ argc = 4 /\ mainpc = "exit" =>
          /\ CURRENT_K = IF kmin > kmax THEN kmin ELSE kmax + 1
          /\ Len(printed) = CURRENT_K - kmin

\* without kmax on the command line the loop has run up to the degree of the
\* hub, which exceeds every kmax the command line is drawn from
C15_Witness ==
    /\ argc = 4 /\ mainpc = "exit"
    /\ kmax > MaxK
    /\ printed # << >> /\ printed[Len(printed)][1] = kmax

\* C16: one result line is printed for each k of [kmin, kmax], in order and
\* none when kmin > kmax, and the count of the line for k is the number of
\* vertices not deleted after the round for k.
C16_LinePerKWithAliveCount ==
    /\ \A i \in DOMAIN printed : printed[i][1] = kmin + i - 1
    /\ mainpc = "exit" =>
          Len(printed) = IF kmin > kmax THEN 0 ELSE kmax - kmin + 1
    /\ mainpc \in {"start", "exit"} /\ printed # << >> =>
          printed[Len(printed)][2] = get_num_vertices - NumDeleted

\* the degree left to v once the vertices of D are deleted: every in-edge
\* from D and every out-edge to D is gone
DegreeWithout(D, v) ==
    InitDegree(v)
    - Cardinality({ e \in edges : e[2] = v /\ e[1] \in D })
    - Cardinality({ e \in edges : e[1] = v /\ e[2] \in D })

RECURSIVE Peel(_, _)
\* the vertices peeled for k, starting from the deleted set D
Peel(D, k) ==
    LET N == { v \in VertexIds \ D : DegreeWithout(D, v) < k }
    IN IF N = {} THEN D ELSE Peel(D \cup N, k)

\* the round for k has completed and its count query is under way
RoundDone(k) == mainpc = "query" /\ qkind = "count" /\ CURRENT_K = k

\* C17: a run with kmin = kmax = k ends with a set of deleted vertices, and
\* so a printed count, that the graph and k determine: the same in every
\* interleaving of workers, dispatches and I/O completions.  (It holds of
\* the first round of every run, which starts from the same state.)
C17_DeletedSetDetermined ==
    /\ RoundDone(kmin) =>
          { v \in Vertices : deleted[v] } = Peel({}, kmin)
    /\ kmin = kmax /\ mainpc = "exit" =>
          /\ { v \in Vertices : deleted[v] } = Peel({}, kmin)
          /\ printed = << << kmin, Cardinality(Peel({}, kmin)) >> >>

\* a run with kmin = kmax has ended after a cascade of three levels in which
\* both workers deleted vertices
C17_Witness ==
    /\ kmin = kmax /\ mainpc = "exit"
    /\ level >= 3
    /\ \A w \in Workers : \E v \in LocalVertices(w) : deleted[v]

\* the edges v is an endpoint of, a self-loop being one edge
IncidentEdges(v) == { e \in edges : e[1] = v \/ e[2] = v }

\* a deleted vertex with a self-loop is not revisited by its own multicast:
\* it requests no adjacency again (so it cannot multicast again), and where
\* the self-loop is the only edge its degree stays what it was
NoSelfRevisit ==
    /\ \A v \in VertexIds :
          /\ << v, v >> \in edges
          /\ deleted[v] /\ delLevel[v] >= 0
          /\ wlevel[part_of(v)] > delLevel[v]
          => v \notin inflight[part_of(v)]
    /\ \A v \in VertexIds :
          IncidentEdges(v) = { << v, v >> } => degree[v] = InitDegree(v)

\* C18: a self-loop adds exactly 1 to the k-core degree of its vertex, and
\* the deletion multicast of the vertex does not revisit it.
C18_SelfLoopCountedOnce ==
    /\ mainpc = "kmax" =>
          \A v \in VertexIds : degree[v] = Cardinality(IncidentEdges(v))
    /\ NoSelfRevisit

\* the graph is one vertex without edges
SingleIsolated == num_vertices = 1 /\ edges = {}

C20_DeletedProcessedOnDispatch ==
    /\ [][\A w \in Workers :
            /\ curr[w] # << >> /\ curr'[w] = Tail(curr[w])
            /\ deleted[Head(curr[w])]
            => /\ inflight' = inflight
               /\ remaining' = remaining - 1
               /\ pending' = pending /\ outbuf' = outbuf /\ sendq' = sendq
               /\ pc' = pc]_vars
    /\ [](\A w \in Workers : \A v \in inflight[w] :
            deleted[v] => sender[w] = v /\ pc[w] \in {"send", "blocked"})

\* a vertex deleted in an earlier level was dispatched in this level and is
\* not parked, while its worker goes on with the level
C20_Witness ==
    \E w \in Workers : \E v \in Range(ran[w]) :
        /\ deleted[v] /\ delLevel[v] # wlevel[w]
        /\ pc[w] = "run"
        /\ v \notin inflight[w]

\* ------------------------------------------------ kcore_vertex_program
\* the other programs while the k-core program takes a step
OtherLayersIdle == << orderVars, flashVars, mulVars, cliVars, lateVars, countVars >>

\* kcore_vertex_program::add_active_next_itr: the id is appended to the
\* private vector activate_next_itr of the worker's program.  The class has
\* no other member that reads the vector.
add_active_next_itr(w, id) ==
    activate_next_itr' = [activate_next_itr EXCEPT ![w] = Append(@, id)]

\* vertex code run by worker w in the level under way calls
\* program.add_active_next_itr(id)
AddActiveNextItr(w, id) ==
    /\ mainpc = "wait"
    /\ pc[w] = "run"
    /\ id \in VertexIds
    /\ SumLen(activate_next_itr, Workers) < MaxActivateCalls
    /\ add_active_next_itr(w, id)
    /\ explicitAt' = explicitAt \cup { [id |-> id, lvl |-> level, k |-> CURRENT_K] }
    /\ UNCHANGED engineVars
    /\ UNCHANGED OtherLayersIdle

ProgramNext ==
    \/ Next
    \/ \E w \in Workers : \E id \in Vertices : AddActiveNextItr(w, id)

\* the k-core program with vertex code that uses add_active_next_itr
ProgramSpec == Init /\ [][ProgramNext]_vars

\* the owner of v is past the run phase of level l of the round for k
PastRunPhase(v, l, k) ==
    /\ CURRENT_K = k
    /\ mainpc \in {"wait", "query"}
    /\ wlevel[part_of(v)] = l
    /\ pc[part_of(v)] \in {"notify", "b1", "done"}

\* C21: a vertex id passed to program.add_active_next_itr(id) during level L
\* is active in level L+1: its run is invoked in L+1, once.
C21_ExplicitActivationRuns ==
    \A c \in explicitAt :
        PastRunPhase(c.id, c.lvl + 1, c.k) => runCount[c.id] = 1

\* ------------------------------------------------------ block execution orders
\* the engine and the programs other than the matrix program do not move
NotMatrixVars == << engineVars, programVars, flashVars, mulVars, cliVars, lateVars, countVars >>
NotMatrixIdle ==
    EngineIdle /\ ProgramIdle /\ FlashIdle /\ MulIdle /\ CliIdle /\ LateIdle /\ CountIdle

\* the dimensions a Hilbert order is built for
PowersOfTwo == { 2^i : i \in 0 .. MaxLog2N }

RECURSIVE hilbert_d(_, _, _, _, _)
\* the loop of hilbert_xy2d: s runs over n/2, n/4, .., 1; each round adds
\* the quadrant's share of the index and rotates (x, y) into the quadrant
hilbert_d(n, s, x, y, d) ==
    IF s = 0 THEN d
    ELSE LET rx == (x \div s) % 2
             ry == (y \div s) % 2
             flip == ry = 0 /\ rx = 1
             fx == IF flip THEN n - 1 - x ELSE x
             fy == IF flip THEN n - 1 - y ELSE y
         IN hilbert_d(n, s \div 2,
                      IF ry = 0 THEN fy ELSE fx,
                      IF ry = 0 THEN fx ELSE fy,
                      d + s * s * (IF rx = 1 THEN 3 - ry ELSE ry))

\* hilbert_xy2d(n, x, y): the index of cell (x, y) on the Hilbert curve that
\* fills the n x n grid
hilbert_xy2d(n, x, y) == hilbert_d(n, n \div 2, x, y, 0)

\* block_exec_order::ptr(): the null pointer
null_order == [kind |-> "null", n |-> 0, hilbert_orders |-> << >>]

\* new seq_exec_order()
seq_exec_order == [kind |-> "seq", n |-> 0, hilbert_orders |-> << >>]

\* the coordinates in the order of the constructor's loops, i outer, j inner
hilbert_coordinates(n) ==
    [k \in 1 .. n * n |->
        [coo |-> << (k - 1) \div n, (k - 1) % n >>,
         order |-> hilbert_xy2d(n, (k - 1) \div n, (k - 1) % n)]]

\* mutant: the coordinates are left in row-major order
hilbert_exec_order_unsorted(n) ==
    [kind |-> "hilbert", n |-> n, hilbert_orders |-> hilbert_coordinates(n)]

\* hilbert_exec_order::hilbert_exec_order(n): every coordinate of the grid
\* with its Hilbert index, sorted ascendingly by the index
hilbert_exec_order(n) ==
    [kind |-> "hilbert", n |-> n,
     hilbert_orders |-> SortSeq(hilbert_coordinates(n),
                                LAMBDA a, b : a.order < b.order)]

\* seq_exec_order::is_valid_size
seq_is_valid_size(height, width) == TRUE

\* hilbert_exec_order::is_valid_size
hilbert_is_valid_size(o, height, width) == o.n = height /\ o.n = width

\* order->is_valid_size(height, width)
is_valid_size(o, height, width) ==
    IF o.kind = "hilbert" THEN hilbert_is_valid_size(o, height, width)
    ELSE seq_is_valid_size(height, width)

\* the blocks of a vector that are not null, in the order of the vector
NonNull(bl) == SelectSeq(bl, LAMBDA b : b # NULL)

\* seq_exec_order::exec: run_on_block on every non-null block, in order
seq_exec(bl) == [ran |-> NonNull(bl), ret |-> "true"]

\* hilbert_exec_order::exec: refuses a vector that does not hold n^2 blocks;
\* otherwise run_on_block on blocks[row * n + col] for the coordinates in
\* ascending Hilbert index, null blocks left out
hilbert_exec(o, bl) ==
    IF Len(bl) # Len(o.hilbert_orders)
    THEN [ran |-> << >>, ret |-> "false"]
    ELSE [ran |-> NonNull([k \in 1 .. Len(o.hilbert_orders) |->
                     bl[o.hilbert_orders[k].coo[1] * o.n
                        + o.hilbert_orders[k].coo[2] + 1]]),
          ret |-> "true"]

\* exec_order->exec(task, blocks)
exec(o, bl) == IF o.kind = "hilbert" THEN hilbert_exec(o, bl) ELSE seq_exec(bl)

RECURSIVE NullSets(_, _)
\* the sets of at most m positions of a vector of len blocks
NullSets(len, m) ==
    IF m = 0 THEN { {} }
    ELSE LET S == NullSets(len, m - 1)
         IN S \cup { s \cup {i} : s \in S, i \in 0 .. (len - 1) }

\* the block vectors of len entries: entry idx holds block idx or is null
BlockVectors(len) ==
    { [k \in 1 .. len |-> IF (k - 1) \in N THEN NULL ELSE k - 1] :
        N \in NullSets(len, MaxNulls) }

\* a Hilbert order is constructed for an n x n grid
NewHilbertOrder(n) ==
    /\ mpc = "new"
    /\ order' = hilbert_exec_order(n)
    /\ grid' = << n, n >>
    /\ mpc' = "exec"
    /\ UNCHANGED << use_hilbert_order, task, blocks, executed, exec_ret >>
    /\ UNCHANGED NotMatrixVars

\* exec is called on a block vector
ExecBlocks(bl) ==
    /\ mpc = "exec"
    /\ blocks' = bl
    /\ executed' = exec(order, bl).ran
    /\ exec_ret' = exec(order, bl).ret
    /\ mpc' = "done"
    /\ UNCHANGED << use_hilbert_order, grid, order, task >>
    /\ UNCHANGED NotMatrixVars

HilbertInit ==
    /\ NotMatrixIdle
    /\ use_hilbert_order = TRUE
    /\ grid = << 0, 0 >>
    /\ order = NoOrder
    /\ task = NoTask
    /\ blocks = << >>
    /\ executed = << >>
    /\ exec_ret = "none"
    /\ mpc = "new"

HilbertNext ==
    \/ \E n \in PowersOfTwo : NewHilbertOrder(n)
    \/ \E len \in { l \in (order.n * order.n - 1) .. (order.n * order.n + 1) : l >= 0 } :
          \E bl \in BlockVectors(len) : ExecBlocks(bl)

\* hilbert_exec_order applied to block vectors of n^2 - 1, n^2 and n^2 + 1
\* entries, n a power of two
HilbertSpec == HilbertInit /\ [][HilbertNext]_vars

\* the Hilbert index of block b of an n x n grid, b = row * n + col
HilbertIndex(n, b) == hilbert_xy2d(n, b \div n, b % n)

\* C22: on an n x n block grid, n a power of two, the Hilbert order passes
\* every non-null block to run_on_block exactly once, in ascending Hilbert
\* index of its (row, col) coordinate, and skips the null blocks; a block
\* vector that does not hold exactly n^2 entries runs no block and exec
\* reports failure.
C22_HilbertVisitsEachBlockOnce ==
    mpc = "done" /\ order.kind = "hilbert" =>
        IF Len(blocks) = order.n * order.n
        THEN /\ exec_ret = "true"
             /\ Range(executed) = Range(blocks) \ {NULL}
             /\ \A i, j \in DOMAIN executed :
                   i < j => HilbertIndex(order.n, executed[i])
                            < HilbertIndex(order.n, executed[j])
        ELSE /\ exec_ret = "false"
             /\ executed = << >>

\* a 4 x 4 grid with two empty blocks has been executed: 14 blocks were run
C22_Witness ==
    /\ mpc = "done" /\ order.kind = "hilbert" /\ order.n = 4
    /\ Len(blocks) = 16
    /\ Cardinality({ k \in DOMAIN blocks : blocks[k] = NULL }) = 2
    /\ Len(executed) = 14
    /\ executed[1] = 0

\* --------------------------------------------------- block compute tasks
\* log2(n) is a whole number: log2_nbr == floor(log2_nbr)
log2_is_integral(n) == \E i \in 0 .. n : 2^i = n

\* block_sparse_matrix::get_multiply_order: the square test and the
\* power-of-two test come first, whatever the configuration says; then the
\* order the configuration asks for is created
get_multiply_order(num_block_rows, num_block_cols) ==
    IF num_block_rows # num_block_cols THEN null_order
    ELSE IF ~log2_is_integral(num_block_rows) THEN null_order
    ELSE IF use_hilbert_order THEN hilbert_exec_order(num_block_rows)
    ELSE seq_exec_order

\* ROUND_PAGE: the offset rounded down to a page boundary
ROUND_PAGE(off) == off - (off % PAGE_SIZE)

\* ROUNDUP_PAGE: the offset rounded up to a page boundary
ROUNDUP_PAGE(off) == ROUND_PAGE(off + PAGE_SIZE - 1)

\* mutant: the buffer is sized for the bytes of the io alone
block_compute_task_unshifted(o, num_block_rows, orig_off, io_size) ==
    [exec_order |-> IF is_valid_size(o, num_block_rows, num_block_rows)
                    THEN o ELSE seq_exec_order,
     num_block_rows |-> num_block_rows,
     orig_off |-> orig_off,
     io_size |-> io_size,
     off |-> ROUND_PAGE(orig_off),
     buf_size |-> ROUNDUP_PAGE(io_size)]

\* block_compute_task::block_compute_task for an io of num_block_rows block
\* rows that starts at byte orig_off and holds io_size bytes: the order is
\* kept when it is valid for num_block_rows x num_block_rows blocks and is
\* replaced by a sequential order otherwise; the read starts at the page
\* boundary below orig_off and ends at the page boundary above the io's end
block_compute_task(o, num_block_rows, orig_off, io_size) ==
    [exec_order |-> IF is_valid_size(o, num_block_rows, num_block_rows)
                    THEN o ELSE seq_exec_order,
     num_block_rows |-> num_block_rows,
     orig_off |-> orig_off,
     io_size |-> io_size,
     off |-> ROUND_PAGE(orig_off),
     buf_size |-> ROUNDUP_PAGE(orig_off - ROUND_PAGE(orig_off) + io_size)]

\* block_compute_task::get_request: a read of buf_size bytes at off
get_request(t) == [off |-> t.off, size |-> t.buf_size]

\* the multiplication asks the matrix for the order of an h x w block grid
GetMultiplyOrder(h, w) ==
    /\ mpc = "order"
    /\ grid' = << h, w >>
    /\ order' = get_multiply_order(h, w)
    /\ mpc' = "create"
    /\ UNCHANGED << use_hilbert_order, task, blocks, executed, exec_ret >>
    /\ UNCHANGED NotMatrixVars

\* no order was obtained: the error is logged and the computation is not
\* started
RefuseStart ==
    /\ mpc = "create"
    /\ order.kind = "null"
    /\ mpc' = "refused"
    /\ UNCHANGED << use_hilbert_order, grid, order, task, blocks, executed,
                    exec_ret >>
    /\ UNCHANGED NotMatrixVars

\* a task is created for an io of the matrix; num_block_rows is
\* ceil(io.get_num_rows() / block_size.get_num_rows())
NewTask(num_block_rows, orig_off, io_size) ==
    /\ mpc = "create"
    /\ order.kind # "null"
    /\ task' = block_compute_task(order, num_block_rows, orig_off, io_size)
    /\ mpc' = "run"
    /\ UNCHANGED << use_hilbert_order, grid, order, blocks, executed,
                    exec_ret >>
    /\ UNCHANGED NotMatrixVars

\* block_compute_task::run on a strip whose block rows hold at most
\* num_block_rows blocks each: one super block of num_block_rows^2 entries,
\* null where a block is empty, is handed to the task's order
RunTask(bl) ==
    /\ mpc = "run"
    /\ Len(bl) = task.num_block_rows * task.num_block_rows
    /\ blocks' = bl
    /\ executed' = exec(task.exec_order, bl).ran
    /\ exec_ret' = exec(task.exec_order, bl).ret
    /\ mpc' = "done"
    /\ UNCHANGED << use_hilbert_order, grid, order, task >>
    /\ UNCHANGED NotMatrixVars

MultiplyInit ==
    /\ NotMatrixIdle
    /\ use_hilbert_order \in BOOLEAN
    /\ grid = << 0, 0 >>
    /\ order = NoOrder
    /\ task = NoTask
    /\ blocks = << >>
    /\ executed = << >>
    /\ exec_ret = "none"
    /\ mpc = "order"

MultiplyNext ==
    \/ \E h, w \in 1 .. MaxGrid : GetMultiplyOrder(h, w)
    \/ RefuseStart
    \/ \E n \in 1 .. MaxGrid : NewTask(n, 0, PAGE_SIZE)
    \/ \E bl \in BlockVectors(task.num_block_rows * task.num_block_rows) :
          RunTask(bl)

\* a multiplication on a 2D-partitioned matrix: the order is obtained for
\* the block grid, then a task is created for one strip and run
MultiplySpec == MultiplyInit /\ [][MultiplyNext]_vars

\* an h x w block grid a Hilbert order cannot be built for
NotHilbertGrid(h, w) == h # w \/ ~log2_is_integral(h)

\* C23: requesting Hilbert execution for a block grid that is not square or
\* whose dimension is not a power of two is rejected before any block task
\* is dispatched: the computation does not start and no block is executed
\* in another order instead.
C23_HilbertRejectsBadGrid ==
    /\ use_hilbert_order /\ mpc # "order" /\ NotHilbertGrid(grid[1], grid[2]) =>
          /\ order.kind = "null"
          /\ mpc \in {"create", "refused"}
          /\ task = NoTask /\ executed = << >>
    /\ order.kind = "hilbert" /\ mpc \in {"run", "done"}
       /\ NotHilbertGrid(task.num_block_rows, task.num_block_rows) =>
          executed = << >>

\* C24: with Hilbert ordering disabled a sequential block order is obtained
\* for every block grid H x W, non-square grids and grids whose dimension is
\* not a power of two included, and it runs the non-null blocks in the order
\* in which they are given.
C24_SequentialForEveryGrid ==
    ~use_hilbert_order =>
        /\ mpc \in {"create", "refused", "run", "done"} => order.kind = "seq"
        /\ mpc = "done" => executed = NonNull(blocks)

\* the tasks of a matrix whose order is sequential, for every byte range
RequestInit ==
    /\ NotMatrixIdle
    /\ use_hilbert_order = FALSE
    /\ grid = << 1, 1 >>
    /\ order = seq_exec_order
    /\ task = NoTask
    /\ blocks = << >>
    /\ executed = << >>
    /\ exec_ret = "none"
    /\ mpc = "create"

RequestNext ==
    \E n \in 1 .. MaxGrid : \E off \in 0 .. MaxOff : \E size \in 1 .. MaxIoSize :
        NewTask(n, off, size)

\* block_compute_task constructed for the ios of a matrix: every start
\* offset up to MaxOff and every size of 1 to MaxIoSize bytes
RequestSpec == RequestInit /\ [][RequestNext]_vars

\* C25: the read request of a compute task has an offset that is a multiple
\* of the page size, the task's byte offset rounded down, and a size that
\* is a positive multiple of the page size, and [off, off + buf_size)
\* contains the task's byte range [orig_off, orig_off + io_size).
C25_RequestPageAligned ==
    mpc = "run" =>
        LET r == get_request(task) IN
        /\ r.off % PAGE_SIZE = 0
        /\ r.off <= task.orig_off /\ task.orig_off - r.off < PAGE_SIZE
        /\ r.size > 0 /\ r.size % PAGE_SIZE = 0
        /\ r.off + r.size >= task.orig_off + task.io_size

\* a task whose bytes start inside a page and end in a later page
C25_Witness ==
    /\ mpc = "run"
    /\ task.orig_off % PAGE_SIZE # 0
    /\ (task.orig_off + task.io_size) % PAGE_SIZE # 0
    /\ get_request(task).size >= 2 * PAGE_SIZE
    /\ get_request(task).off >= PAGE_SIZE

\* --------------------------------- init_flash_matrix / destroy_flash_matrix
NotFlashVars == << engineVars, programVars, orderVars, mulVars, cliVars, lateVars, countVars >>
NotFlashIdle ==
    EngineIdle /\ ProgramIdle /\ OrderIdle /\ MulIdle /\ CliIdle /\ LateIdle /\ CountIdle

\* init_flash_matrix: count == 0, the value fetch_add returned
init_initialises(count) == count = 0

\* mutant: every call of destroy_flash_matrix destroys the I/O system
destroy_tears_down_always(count) == TRUE

\* destroy_flash_matrix: init_count.fetch_sub(1) == 1
destroy_tears_down(count) == count = 1

\* init_flash_matrix returns: the count is incremented, and the call that
\* found it 0 has initialised the configuration and the I/O system
InitFlashMatrix ==
    /\ Len(fm_calls) < MaxCalls
    /\ init_count' = init_count + 1
    /\ io_system' = IF init_initialises(init_count) THEN TRUE ELSE io_system
    /\ fm_calls' = Append(fm_calls,
                     [op |-> "init",
                      safs |-> IF init_initialises(init_count)
                               THEN "init_io_system" ELSE "none",
                      twice |-> init_initialises(init_count) /\ io_system])
    /\ UNCHANGED NotFlashVars

\* mutant: the catch clause leaves the count as fetch_add made it
init_count_kept(count) == count

\* the catch clause of init_flash_matrix: init_count--
init_count_taken_back(count) == count - 1

\* init_flash_matrix throws: safs::init_io_system failed in the call that
\* found the count 0, the increment is taken back and the exception is
\* passed on
InitFlashMatrixThrows ==
    /\ Len(fm_calls) < MaxCalls
    /\ init_initialises(init_count)
    /\ ~io_system
    /\ init_count' = init_count_taken_back(init_count + 1)
    /\ fm_calls' = Append(fm_calls,
                     [op |-> "init_throws", safs |-> "none", twice |-> FALSE])
    /\ UNCHANGED io_system
    /\ UNCHANGED NotFlashVars

\* destroy_flash_matrix, called after a matching init_flash_matrix that
\* returned: the count is decremented, and the call that found it 1
\* destroys the I/O system
DestroyFlashMatrix ==
    /\ Len(fm_calls) < MaxCalls
    /\ init_count > 0
    /\ init_count' = init_count - 1
    /\ io_system' = IF destroy_tears_down(init_count) THEN FALSE ELSE io_system
    /\ fm_calls' = Append(fm_calls,
                     [op |-> "destroy",
                      safs |-> IF destroy_tears_down(init_count)
                               THEN "destroy_io_system" ELSE "none",
                      twice |-> FALSE])
    /\ UNCHANGED NotFlashVars

FlashMatrixInit == NotFlashIdle /\ FlashIdle

FlashMatrixNext ==
    \/ InitFlashMatrix
    \/ InitFlashMatrixThrows
    \/ DestroyFlashMatrix

\* every sequence of at most MaxCalls calls in which a destroy follows a
\* matching init that returned
FlashMatrixSpec == FlashMatrixInit /\ [][FlashMatrixNext]_vars

\* the nesting depth after the first i calls: the inits that returned
\* minus the destroys
Depth(i) ==
    Cardinality({ j \in 1 .. i : fm_calls[j].op = "init" })
    - Cardinality({ j \in 1 .. i : fm_calls[j].op = "destroy" })

\* C26: in a sequence of init_flash_matrix / destroy_flash_matrix calls in
\* which every destroy follows a matching successful init, the I/O system is
\* initialised exactly by the calls that take the init count from 0 to 1 and
\* destroyed exactly by the calls that return it to 0: a nested init does
\* not initialise again and an inner destroy does not tear it down.
C26_InitCountGuardsIoSystem ==
    /\ init_count = Depth(Len(fm_calls))
    /\ io_system <=> init_count > 0
    /\ \A i \in DOMAIN fm_calls :
          /\ fm_calls[i].safs = "init_io_system" <=>
                fm_calls[i].op = "init" /\ Depth(i - 1) = 0
          /\ fm_calls[i].safs = "destroy_io_system" <=>
                fm_calls[i].op = "destroy" /\ Depth(i) = 0
          /\ ~fm_calls[i].twice

\* init, nested init, inner destroy, outer destroy: one initialisation and
\* one destruction, made by the first and the last call
C26_Witness ==
    /\ Len(fm_calls) = 4
    /\ [i \in 1 .. 4 |-> fm_calls[i].op] = << "init", "init", "destroy", "destroy" >>
    /\ [i \in 1 .. 4 |-> fm_calls[i].safs]
          = << "init_io_system", "none", "none", "destroy_io_system" >>
    /\ ~io_system

\* the call that extends fm_calls in this step left init_flash_matrix by
\* the exception of init_io_system
InitThrowsStep ==
    /\ Len(fm_calls') = Len(fm_calls) + 1
    /\ fm_calls'[Len(fm_calls')].op = "init_throws"

\* C33: if init_io_system throws inside init_flash_matrix, the exception
\* propagates to the caller and the init count is back at the value it had
\* before the call, so that the next init_flash_matrix call attempts the
\* initialisation again.
C33_FailedInitRestoresCount ==
    /\ [][InitThrowsStep => init_count' = init_count /\ io_system' = io_system]_vars
    /\ [](\A i \in DOMAIN fm_calls :
            /\ fm_calls[i].op = "init_throws"
            /\ i < Len(fm_calls)
            /\ fm_calls[i + 1].op \in {"init", "init_throws"}
            => \/ fm_calls[i + 1].op = "init_throws"
               \/ fm_calls[i + 1].safs = "init_io_system")

\* an init_flash_matrix that threw, then one that returned: the second call
\* has initialised the I/O system and the count is 1
C33_Witness ==
    /\ Len(fm_calls) = 2
    /\ fm_calls[1].op = "init_throws"
    /\ fm_calls[2].op = "init" /\ fm_calls[2].safs = "init_io_system"
    /\ init_count = 1
    /\ io_system

\* ------------------------------------------------- sparse_matrix::multiply
NotMulVars == << engineVars, programVars, orderVars, flashVars, cliVars, lateVars, countVars >>
NotMulIdle ==
    EngineIdle /\ ProgramIdle /\ OrderIdle /\ FlashIdle /\ CliIdle /\ LateIdle /\ CountIdle

\* the sparse matrices: the constructor of the FlashGraph format makes a
\* square matrix of num_vertices rows, the 2D constructor takes both sizes
Matrices ==
    { [is_fg |-> TRUE, nrows |-> n, ncols |-> n] : n \in 1 .. MaxDim }
    \cup { [is_fg |-> FALSE, nrows |-> r, ncols |-> c] :
             r \in 1 .. MaxDim, c \in 1 .. MaxDim }

\* the input vectors, by length
Vectors ==
    { [kind |-> "vector", rows |-> l, cols |-> 1, in_mem |-> TRUE,
       layout |-> "col"] : l \in 1 .. MaxDim }

\* the dense input matrices: in memory or in external memory, row-major or
\* column-major
DenseMatrices ==
    { [kind |-> "matrix", rows |-> r, cols |-> c, in_mem |-> m, layout |-> l] :
        r \in 1 .. MaxDim, c \in 1 .. MaxDim, m \in BOOLEAN,
        l \in {"row", "col"} }

\* the empty pointer multiply returns on an error
null_result == [ret |-> [ptr |-> "null", rows |-> 0, cols |-> 0], computes |-> 0]

\* multiply(type_mem_vector): the length is compared with ncols; the result
\* vector is created with nrows entries and one computation fills it
multiply_vector(m, in) ==
    IF in.rows # m.ncols THEN null_result
    ELSE [ret |-> [ptr |-> "set", rows |-> m.nrows, cols |-> 1],
          computes |-> 1]

\* multiply_matrix: the result has get_num_rows() rows and the operand's
\* number of columns; a row-major operand takes one computation, a
\* column-major operand one per column
multiply_matrix(m, in) ==
    [ret |-> [ptr |-> "set", rows |-> m.nrows, cols |-> in.cols],
     computes |-> IF in.layout = "row" THEN 1 ELSE in.cols]

\* mutant: an operand in external memory is multiplied as well
multiply_dense_any_store(m, in) ==
    IF in.rows # m.ncols THEN null_result ELSE multiply_matrix(m, in)

\* multiply(dense_matrix): the row count is compared with ncols, then the
\* operand must be in memory
multiply_dense(m, in) ==
    IF in.rows # m.ncols THEN null_result
    ELSE IF ~in.in_mem THEN null_result
    ELSE multiply_matrix(m, in)

\* sparse_matrix::transpose: nrows and ncols are swapped
Transpose ==
    /\ mul_in = NoOperand
    /\ matrix' = [matrix EXCEPT !.nrows = matrix.ncols, !.ncols = matrix.nrows]
    /\ UNCHANGED << mul_in, mul_ret, num_computes >>
    /\ UNCHANGED NotMulVars

\* multiply<T>(type_mem_vector<T>::ptr in) is called and returns
MultiplyVector(in) ==
    /\ mul_in = NoOperand
    /\ mul_in' = in
    /\ mul_ret' = multiply_vector(matrix, in).ret
    /\ num_computes' = num_computes + multiply_vector(matrix, in).computes
    /\ UNCHANGED matrix
    /\ UNCHANGED NotMulVars

\* multiply<T>(dense_matrix::ptr in) is called and returns; the creator of
\* the dense multiplication asserts that the matrix is not in the
\* FlashGraph format
MultiplyDense(in) ==
    /\ mul_in = NoOperand
    /\ ~matrix.is_fg
    /\ mul_in' = in
    /\ mul_ret' = multiply_dense(matrix, in).ret
    /\ num_computes' = num_computes + multiply_dense(matrix, in).computes
    /\ UNCHANGED matrix
    /\ UNCHANGED NotMulVars

SpmInit ==
    /\ NotMulIdle
    /\ matrix \in Matrices
    /\ mul_in = NoOperand
    /\ mul_ret = NoResult
    /\ num_computes = 0

SpmNext ==
    \/ Transpose
    \/ \E in \in Vectors : MultiplyVector(in)
    \/ \E in \in DenseMatrices : MultiplyDense(in)

\* one multiply call on a sparse matrix, transposed or not
SpmSpec == SpmInit /\ [][SpmNext]_vars

\* the operand is one multiply refuses
BadOperand ==
    \/ mul_in.rows # matrix.ncols
    \/ mul_in.kind = "matrix" /\ ~mul_in.in_mem

NotCliVars == << engineVars, programVars, orderVars, flashVars, mulVars, lateVars, countVars >>
NotCliIdle ==
    EngineIdle /\ ProgramIdle /\ OrderIdle /\ FlashIdle /\ MulIdle /\ LateIdle /\ CountIdle

\* the names main dispatches on
SupportedAlgs ==
    { "cycle_triangle", "triangle", "local_scan", "topK_scan", "diameter",
      "pagerank", "pagerank2", "wcc", "cc", "scc", "sstsg", "ts_wcc", "kcore",
      "betweenness", "overlap", "bfs", "closeness", "diversity", "toposort",
      "louvain" }

\* names main does not know
UnknownAlgs == { "k-core", "sssp" }

\* the status of a process that called exit(-1)
EXIT_MINUS_ONE == 255

\* what is left of the command line after argv++, argc--: the number of
\* arguments, the algorithm name, the value of option -k (2 when absent),
\* and whether the graph and index files can be loaded
CliCommandLines ==
    { [argc |-> n, alg |-> a, k |-> k, graph_ok |-> g] :
        n \in {3, 4}, a \in SupportedAlgs \cup UnknownAlgs, k \in 0 .. MaxK,
        g \in BOOLEAN }

\* main up to the dispatch: fewer than four arguments print the usage and
\* exit(-1); init_flash_graph; a graph that cannot be created prints the
\* exception and exit(-1)
CliMain ==
    /\ cli_pc = "main"
    /\ IF cli_argv.argc < 4
       THEN /\ exit_status' = EXIT_MINUS_ONE
            /\ cli_pc' = "exited"
            /\ UNCHANGED flash_graph
       ELSE /\ flash_graph' = "up"
            /\ IF cli_argv.graph_ok
               THEN cli_pc' = "dispatch" /\ UNCHANGED exit_status
               ELSE cli_pc' = "exited" /\ exit_status' = EXIT_MINUS_ONE
    /\ UNCHANGED << cli_argv, alg_ran >>
    /\ UNCHANGED NotCliVars

\* main: the branch of a supported algorithm other than kcore runs it, then
\* destroy_flash_graph and the end of main
RunAlgorithm ==
    /\ cli_pc = "dispatch"
    /\ cli_argv.alg \in SupportedAlgs \ {"kcore"}
    /\ alg_ran' = cli_argv.alg
    /\ flash_graph' = "down"
    /\ exit_status' = 0
    /\ cli_pc' = "exited"
    /\ UNCHANGED cli_argv
    /\ UNCHANGED NotCliVars

\* main: alg == "kcore", run_kcore: k < 2 prints the error and exit(-1),
\* otherwise compute_kcore runs
RunKcore ==
    /\ cli_pc = "dispatch"
    /\ cli_argv.alg = "kcore"
    /\ IF cli_argv.k < 2
       THEN /\ exit_status' = EXIT_MINUS_ONE
            /\ UNCHANGED << alg_ran, flash_graph >>
       ELSE /\ alg_ran' = "kcore"
            /\ flash_graph' = "down"
            /\ exit_status' = 0
    /\ cli_pc' = "exited"
    /\ UNCHANGED cli_argv
    /\ UNCHANGED NotCliVars

\* main: the final else prints "[ERROR]: Unknown algorithm", then
\* destroy_flash_graph and the end of main, which returns 0
UnknownAlgorithm ==
    /\ cli_pc = "dispatch"
    /\ cli_argv.alg \notin SupportedAlgs
    /\ flash_graph' = "down"
    /\ exit_status' = 0
    /\ cli_pc' = "exited"
    /\ UNCHANGED << cli_argv, alg_ran >>
    /\ UNCHANGED NotCliVars

CliInit ==
    /\ NotCliIdle
    /\ cli_pc = "main"
    /\ cli_argv \in CliCommandLines
    /\ flash_graph = "none"
    /\ alg_ran = "none"
    /\ exit_status = -1

CliNext ==
    \/ CliMain
    \/ RunAlgorithm
    \/ RunKcore
    \/ UnknownAlgorithm

\* one run of test_algs
CliSpec == CliInit /\ [][CliNext]_vars

\* C28: invoking k-core with kmin < 2 is a configuration error: the program
\* exits with a nonzero status and no peeling round is started.
C28_KminBelowTwoRejected ==
    kmin < 2 => mainpc \notin {"wait", "exit"} /\ level = 0 /\ printed = << >>

\* C29: invoking the algorithm entry point with an algorithm name that is
\* not supported is a configuration error: no algorithm runs and the
\* process exits with a nonzero status.
C29_UnknownAlgorithmFails ==
    /\ cli_pc = "exited"
    /\ cli_argv.argc >= 4 /\ cli_argv.graph_ok
    /\ cli_argv.alg \notin SupportedAlgs
    => alg_ran = "none" /\ exit_status # 0

\* C30: after the peeling round for k has completed, for every k of the
\* kmin..kmax loop run on one engine, the non-deleted vertices are exactly
\* the k-core of the graph: every non-deleted vertex has current degree at
\* least k.
C30_SurvivorsAreKCore ==
    RoundDone(CURRENT_K) =>
        /\ { v \in VertexIds : ~deleted[v] } = VertexIds \ Peel({}, CURRENT_K)
        /\ \A v \in VertexIds : ~deleted[v] => degree[v] >= CURRENT_K

\* ------------------------------------------------ degrees and deletions
\* C35: throughout a k-core run, over all levels of all k rounds, the degree
\* of a non-deleted vertex is its initial in+out edge count minus the number
\* of deletion messages delivered to it, and the unsigned degree is never
\* decremented below 0: a vertex that is alive has received no more deletion
\* messages than it has incident edge endpoints.
C35_DegreeCountsMessages ==
    \A v \in VertexIds :
        /\ ~deleted[v] => degree[v] = InitDegree(v) - msgsTo[v]
        /\ ~deleted[v] => msgsTo[v] <= InitDegree(v)
        /\ degree[v] >= 0 /\ degree[v] <= InitDegree(v)

\* a vertex of four edge endpoints that is alive in a round after the first
\* and has received a deletion message for each of them: its degree is 0
C35_Witness ==
    \E v \in VertexIds :
        /\ CURRENT_K > kmin
        /\ ~deleted[v]
        /\ InitDegree(v) = 4
        /\ msgsTo[v] = 4
        /\ degree[v] = 0

\* a worker begins the multicasts of vertex v in this step
BeginsMulticast(v) ==
    \E w \in Workers : pc[w] = "run" /\ pc'[w] = "send" /\ sender'[w] = v

\* C36: a k-core vertex becomes deleted at most once and never becomes
\* not-deleted again, over all levels and all k rounds; it multicasts its
\* deletion messages, one multicast to its in-neighbours and one to its
\* out-neighbours, exactly in the step in which it becomes deleted.
C36_DeletedOnceMulticastOnce ==
    [][\A v \in Vertices :
          /\ deleted[v] => deleted'[v]
          /\ BeginsMulticast(v) <=> (~deleted[v] /\ deleted'[v])
          /\ BeginsMulticast(v) =>
                \E w \in Workers :
                    /\ sender'[w] = v
                    /\ sendq'[w] = InNeighbours(v) \o OutNeighbours(v)]_vars

\* a vertex deleted in an earlier round is dispatched again in a later round
\* (the filter activates it by its edge count) and stays deleted
C36_Witness ==
    \E v \in VertexIds :
        /\ CURRENT_K > kmin
        /\ mainpc = "wait"
        /\ deleted[v]
        /\ delLevel[v] = -2
        /\ runCount[v] = 1

\* ----------------------------------------------------------- rand_permute
\* the engine and the other programs do not move
NotPermVars == << engineVars, programVars, orderVars, flashVars, mulVars,
                  cliVars, countVars, balVars, threadVars, runVars, spmvVars >>
NotPermIdle ==
    /\ EngineIdle /\ ProgramIdle /\ OrderIdle /\ FlashIdle /\ MulIdle /\ CliIdle
    /\ CountIdle /\ BalIdle /\ ThreadIdle /\ RunIdle /\ SpmvIdle

\* the values random() returns
RandomValues == 0 .. MaxRandom

\* the first loop of the constructor: offset[i] = ((off_t) i) * stride
fill_offsets(num, stride) == [k \in 1 .. num |-> (k - 1) * stride]

\* mutant: the swap without the temporary, offset[i] reads the new offset[j]
swap_offsets_no_tmp(a, i, j) == [a EXCEPT ![j + 1] = a[i + 1]]

\* the body of the second loop: offset[j] and offset[i] change places
swap_offsets(a, i, j) == [a EXCEPT ![j + 1] = a[i + 1], ![i + 1] = a[j + 1]]

\* rand_permute::get_offset
get_offset(idx) == rp_offset[idx + 1]

\* the constructor allocates the array and fills it
RandPermuteFill ==
    /\ rp_pc = "fill"
    /\ rp_offset' = fill_offsets(rp_num, rp_stride)
    /\ rp_i' = rp_num - 1
    /\ rp_pc' = "shuffle"
    /\ UNCHANGED << rp_num, rp_stride >>
    /\ UNCHANGED NotPermVars

\* one round of the second loop, for i >= 1: j = random() % i, swap, i--
RandPermuteSwap(r) ==
    /\ rp_pc = "shuffle"
    /\ rp_i >= 1
    /\ rp_offset' = swap_offsets(rp_offset, rp_i, r % rp_i)
    /\ rp_i' = rp_i - 1
    /\ UNCHANGED << rp_num, rp_stride, rp_pc >>
    /\ UNCHANGED NotPermVars

\* the second loop ends: the object is constructed
RandPermuteDone ==
    /\ rp_pc = "shuffle"
    /\ rp_i < 1
    /\ rp_pc' = "done"
    /\ UNCHANGED << rp_num, rp_stride, rp_offset, rp_i >>
    /\ UNCHANGED NotPermVars

PermuteInit ==
    /\ NotPermIdle
    /\ rp_num \in 0 .. MaxNum
    /\ rp_stride \in 1 .. MaxStride
    /\ rp_offset = << >>
    /\ rp_i = 0
    /\ rp_pc = "fill"

PermuteNext ==
    \/ RandPermuteFill
    \/ \E r \in RandomValues : RandPermuteSwap(r)
    \/ RandPermuteDone

\* rand_permute(num, stride) for every num up to MaxNum, every stride of 1
\* to MaxStride and every value random() returns in each round
PermuteSpec == PermuteInit /\ [][PermuteNext]_vars

\* C38: rand_permute(num, stride) holds a permutation of
\* {0, stride, .., (num - 1) * stride}: each of these offsets is returned by
\* get_offset for exactly one index in [0, num), whatever random() returned.
C38_RandPermuteIsPermutation ==
    rp_pc = "done" =>
        /\ Len(rp_offset) = rp_num
        /\ \A k \in 0 .. (rp_num - 1) :
              Cardinality({ idx \in 0 .. (rp_num - 1) :
                              get_offset(idx) = k * rp_stride }) = 1

\* four offsets of stride 2 have been shuffled: no offset is at its index
C38_Witness ==
    /\ rp_pc = "done"
    /\ rp_num = 4 /\ rp_stride = 2
    /\ \A idx \in 0 .. 3 : get_offset(idx) # idx * 2

\* ------------------------------------------------------ balanced_workload
NotBalVars == << engineVars, programVars, orderVars, flashVars, mulVars,
                 cliVars, countVars, permVars, threadVars, runVars, spmvVars >>
NotBalIdle ==
    /\ EngineIdle /\ ProgramIdle /\ OrderIdle /\ FlashIdle /\ MulIdle /\ CliIdle
    /\ CountIdle /\ PermIdle /\ ThreadIdle /\ RunIdle /\ SpmvIdle

\* the offsets of chunk c of the shared source, CHUNK_SLOTS of them
chunk_offsets(c) == [k \in 1 .. CHUNK_SLOTS |-> c * CHUNK_SLOTS + (k - 1)]

\* workload_chunk::get_workload(offsets, CHUNK_SLOTS) on a source that has
\* handed out taken of its total chunks: the next chunk is written to
\* offsets and true is returned; an exhausted source writes nothing and
\* returns false
get_workload(offsets, taken, total) ==
    IF taken < total
    THEN [ret |-> TRUE, offsets |-> chunk_offsets(taken), taken |-> taken + 1]
    ELSE [ret |-> FALSE, offsets |-> offsets, taken |-> taken]

\* balanced_workload::balanced_workload: memset(offsets, 0), curr = CHUNK_SLOTS
balanced_workload_offsets == [k \in 1 .. CHUNK_SLOTS |-> 0]

\* balanced_workload::has_next: true while slots of the chunk are left;
\* otherwise the next chunk is fetched, curr is set to 0 and what
\* get_workload returned is returned
HasNext ==
    /\ Len(bw_rets) < MaxHasNext
    /\ IF bw_curr < CHUNK_SLOTS
       THEN /\ bw_rets' = Append(bw_rets, TRUE)
            /\ UNCHANGED << bw_offsets, bw_curr, chunks_taken, bw_chunk >>
       ELSE LET g == get_workload(bw_offsets, chunks_taken, chunks_total) IN
            /\ bw_offsets' = g.offsets
            /\ chunks_taken' = g.taken
            /\ bw_curr' = 0
            /\ bw_rets' = Append(bw_rets, g.ret)
            /\ bw_chunk' = IF g.ret THEN Range(g.offsets) ELSE {}
    /\ bw_may_read' = bw_rets'[Len(bw_rets')]
    /\ UNCHANGED << chunks_total, bw_handed >>
    /\ UNCHANGED NotBalVars

\* balanced_workload::next_offset, called after has_next returned true:
\* offsets[curr++]
NextOffset ==
    /\ bw_may_read
    /\ bw_curr < CHUNK_SLOTS
    /\ bw_handed' = Append(bw_handed,
                      [off |-> bw_offsets[bw_curr + 1],
                       of_chunk |-> bw_offsets[bw_curr + 1] \in bw_chunk,
                       after_false |-> FALSE \in Range(bw_rets)])
    /\ bw_curr' = bw_curr + 1
    /\ bw_may_read' = FALSE
    /\ UNCHANGED << bw_offsets, chunks_taken, chunks_total, bw_rets, bw_chunk >>
    /\ UNCHANGED NotBalVars

\* another thread's balanced_workload takes a chunk from the shared source
OtherGetWorkload ==
    /\ chunks_taken < chunks_total
    /\ chunks_taken' = chunks_taken + 1
    /\ UNCHANGED << bw_offsets, bw_curr, chunks_total, bw_rets, bw_chunk,
                    bw_handed, bw_may_read >>
    /\ UNCHANGED NotBalVars

BalancedInit ==
    /\ NotBalIdle
    /\ bw_offsets = balanced_workload_offsets
    /\ bw_curr = CHUNK_SLOTS
    /\ chunks_taken = 0
    /\ chunks_total \in 0 .. MaxChunks
    /\ bw_rets = << >>
    /\ bw_chunk = {}
    /\ bw_handed = << >>
    /\ bw_may_read = FALSE

BalancedNext ==
    \/ HasNext
    \/ NextOffset
    \/ OtherGetWorkload

\* one balanced_workload over a chunk source of up to MaxChunks chunks that
\* it shares with other threads; the caller asks has_next up to MaxHasNext
\* times and calls next_offset only after has_next returned true
BalancedSpec == BalancedInit /\ [][BalancedNext]_vars

\* C39: once has_next has returned false because the shared chunk source is
\* exhausted, every later has_next call returns false as well, and
\* next_offset never hands out an offset that get_workload did not deliver
\* for the current chunk.
C39_ExhaustedStaysExhausted ==
    /\ \A i, j \in DOMAIN bw_rets : i < j /\ ~bw_rets[i] => ~bw_rets[j]
    /\ \A i \in DOMAIN bw_handed : bw_handed[i].of_chunk

\* -------------------------- init_flash_matrix called by several threads
NotThreadVars == << engineVars, programVars, orderVars, mulVars, cliVars,
                    countVars, permVars, balVars, runVars, spmvVars, fm_calls >>
NotThreadIdle ==
    /\ EngineIdle /\ ProgramIdle /\ OrderIdle /\ MulIdle /\ CliIdle
    /\ CountIdle /\ PermIdle /\ BalIdle /\ RunIdle /\ SpmvIdle

Threads == 1 .. NumThreads

\* thread t calls init_flash_matrix: count = init_count.fetch_add(1); the
\* call that reads 0 goes on to initialise, every other call returns
ThreadFetchAdd(t) ==
    /\ tpc[t] \in {"out", "thrown"}
    /\ tcalls < MaxThreadCalls
    /\ tcalls' = tcalls + 1
    /\ tcount' = [tcount EXCEPT ![t] = init_count]
    /\ init_count' = init_count + 1
    /\ tpc' = [tpc EXCEPT ![t] =
                 IF init_initialises(init_count) THEN "init" ELSE "returned"]
    /\ UNCHANGED io_system
    /\ UNCHANGED NotThreadVars

\* matrix_conf.init and safs::init_io_system complete in thread t, and
\* init_flash_matrix returns
ThreadInitIoSystem(t) ==
    /\ tpc[t] = "init"
    /\ io_system' = TRUE
    /\ tpc' = [tpc EXCEPT ![t] = "returned"]
    /\ UNCHANGED << init_count, tcount, tcalls >>
    /\ UNCHANGED NotThreadVars

\* safs::init_io_system throws in thread t: the catch clause is entered
ThreadInitIoSystemThrows(t) ==
    /\ tpc[t] = "init"
    /\ tpc' = [tpc EXCEPT ![t] = "catch"]
    /\ UNCHANGED << init_count, io_system, tcount, tcalls >>
    /\ UNCHANGED NotThreadVars

\* the catch clause in thread t: init_count--, throw e
ThreadCatch(t) ==
    /\ tpc[t] = "catch"
    /\ init_count' = init_count_taken_back(init_count)
    /\ tpc' = [tpc EXCEPT ![t] = "thrown"]
    /\ UNCHANGED << io_system, tcount, tcalls >>
    /\ UNCHANGED NotThreadVars

\* thread t, whose init_flash_matrix has returned, calls
\* destroy_flash_matrix
ThreadDestroy(t) ==
    /\ tpc[t] = "returned"
    /\ init_count' = init_count - 1
    /\ io_system' = IF destroy_tears_down(init_count) THEN FALSE ELSE io_system
    /\ tpc' = [tpc EXCEPT ![t] = "out"]
    /\ UNCHANGED << tcount, tcalls >>
    /\ UNCHANGED NotThreadVars

FlashThreadsInit ==
    /\ NotThreadIdle
    /\ init_count = 0
    /\ io_system = FALSE
    /\ fm_calls = << >>
    /\ tpc = [t \in Threads |-> "out"]
    /\ tcount = [t \in Threads |-> 0]
    /\ tcalls = 0

FlashThreadsNext ==
    \E t \in Threads :
        \/ ThreadFetchAdd(t)
        \/ ThreadInitIoSystem(t)
        \/ ThreadInitIoSystemThrows(t)
        \/ ThreadCatch(t)
        \/ ThreadDestroy(t)

\* NumThreads threads that call init_flash_matrix and, after it returned,
\* destroy_flash_matrix, in any interleaving of their steps; MaxThreadCalls
\* calls of init_flash_matrix in all
FlashThreadsSpec == FlashThreadsInit /\ [][FlashThreadsNext]_vars

\* C34: whenever a call to init_flash_matrix has returned normally in some
\* thread, the I/O system is initialised, also when several threads call
\* init_flash_matrix concurrently or when a concurrent first caller's
\* initialisation fails.
C34_ReturnedMeansInitialised ==
    \A t \in Threads : tpc[t] = "returned" => io_system

\* ------------------------------------------------ block_compute_task::run
NotRunVars == << engineVars, programVars, flashVars, mulVars, cliVars,
                 countVars, permVars, balVars, threadVars, spmvVars >>
NotRunIdle ==
    /\ EngineIdle /\ ProgramIdle /\ FlashIdle /\ MulIdle /\ CliIdle
    /\ CountIdle /\ PermIdle /\ BalIdle /\ ThreadIdle /\ SpmvIdle

\* the block column indices a block row can store
BlockCols == 0 .. (MaxBlockCols - 1)

\* a block is named by row * MaxBlockCols + col, row counted inside the task
block_id(row, col) == row * MaxBlockCols + col
block_row_idx(b) == b \div MaxBlockCols
block_col_idx(b) == b % MaxBlockCols

\* the block rows of a task of n block rows: each stores its non-empty
\* blocks with strictly increasing column index
BlockRows(n) == [1 .. n -> { SetToSeq(S) : S \in SUBSET BlockCols }]

\* block_compute_task::block_compute_task: block_rows.resize(num_block_rows + 1)
block_rows_size(num_block_rows) == num_block_rows + 1

\* the indices of block_rows read by the loop that builds the iterators:
\* for (i = 0; i < block_rows.size(); i++) reads block_rows[i] and
\* block_rows[i + 1]
iterator_reads(size) == UNION { {i, i + 1} : i \in 0 .. (size - 1) }

\* what a read of block_rows at the indices R can do: inside the vector it
\* yields the stored pointer; operator[] past the end is undefined, the
\* build either reads whatever follows the array or (with checked
\* containers) stops the process
read_outcomes(R, size) ==
    IF \A i \in R : i < size THEN {"value"} ELSE {"value", "abort"}

RECURSIVE fill_row(_, _, _, _, _, _)
\* the inner loop of run for block row i (j = 0 .. n - 1): entry j of the
\* row of the super block is the current block of the iterator when its
\* column is sb_col_idx + j, and the iterator moves on; it is NULL when the
\* iterator has no block left or its block lies further right
fill_row(i, r, p, sb, j, n) ==
    IF j = n THEN [cells |-> << >>, p |-> p]
    ELSE LET hit == p <= Len(r) /\ r[p] = sb + j
             rest == fill_row(i, r, IF hit THEN p + 1 ELSE p, sb, j + 1, n)
         IN [cells |-> << IF hit THEN block_id(i, r[p]) ELSE NULL >> \o rest.cells,
             p |-> rest.p]

\* run is entered; the iterators are built, one for every entry of
\* block_rows
RunBuildIterators(outcome) ==
    /\ mpc = "run"
    /\ outcome \in read_outcomes(iterator_reads(block_rows_size(task.num_block_rows)),
                                 block_rows_size(task.num_block_rows))
    /\ reads' = iterator_reads(block_rows_size(task.num_block_rows))
    /\ its' = [i \in 1 .. block_rows_size(task.num_block_rows) |-> 1]
    /\ sb_col_idx' = 0
    /\ mpc' = IF outcome = "abort" THEN "aborted" ELSE "loop"
    /\ UNCHANGED << use_hilbert_order, grid, order, task, blocks, executed,
                    exec_ret, brows, has_blocks, notify_count >>
    /\ UNCHANGED NotRunVars

\* one round of the do-while loop: the next super block is gathered from the
\* iterators, sb_col_idx moves on, and the super block is handed to the order
RunSuperBlock ==
    /\ mpc = "loop"
    /\ LET n == task.num_block_rows
           fr == [i \in 1 .. n |->
                    fill_row(i - 1, brows[i], its[i], sb_col_idx, 0, n)]
           sb == [k \in 1 .. n * n |->
                    fr[((k - 1) \div n) + 1].cells[((k - 1) % n) + 1]]
           more == \E i \in 1 .. n : fr[i].p <= Len(brows[i])
       IN /\ blocks' = sb
          /\ its' = [i \in DOMAIN its |-> IF i <= n THEN fr[i].p ELSE its[i]]
          /\ has_blocks' = more
          /\ sb_col_idx' = sb_col_idx + n
          /\ executed' = executed \o exec(task.exec_order, sb).ran
          /\ exec_ret' = exec(task.exec_order, sb).ret
          /\ mpc' = IF more THEN "loop" ELSE "notify"
    /\ UNCHANGED << use_hilbert_order, grid, order, task, brows, reads,
                    notify_count >>
    /\ UNCHANGED NotRunVars

\* the loop has ended: notify_complete()
RunNotifyComplete ==
    /\ mpc = "notify"
    /\ notify_count' = notify_count + 1
    /\ mpc' = "done"
    /\ UNCHANGED << use_hilbert_order, grid, order, task, blocks, executed,
                    exec_ret, brows, its, reads, sb_col_idx, has_blocks >>
    /\ UNCHANGED NotRunVars

\* a task of n block rows has been constructed over its block rows, with a
\* sequential order or a Hilbert order, and run is about to be called
BlockRunInit ==
    /\ NotRunIdle
    /\ use_hilbert_order \in BOOLEAN
    /\ \E n \in 1 .. MaxRunRows :
          /\ grid = << n, n >>
          /\ order = IF use_hilbert_order /\ log2_is_integral(n)
                     THEN hilbert_exec_order(n) ELSE seq_exec_order
          /\ task = block_compute_task(order, n, 0, PAGE_SIZE)
          /\ brows \in BlockRows(n)
    /\ blocks = << >>
    /\ executed = << >>
    /\ exec_ret = "none"
    /\ mpc = "run"
    /\ its = << >>
    /\ reads = {}
    /\ sb_col_idx = 0
    /\ has_blocks = FALSE
    /\ notify_count = 0

BlockRunNext ==
    \/ \E outcome \in {"value", "abort"} : RunBuildIterators(outcome)
    \/ RunSuperBlock
    \/ RunNotifyComplete

\* block_compute_task::run on every task of up to MaxRunRows block rows
\* whose block rows store blocks of the columns 0 .. MaxBlockCols - 1; the
\* thread that runs the task is scheduled until run returns
BlockRunSpec == BlockRunInit /\ [][BlockRunNext]_vars /\ WF_vars(BlockRunNext)

\* the blocks stored in the block rows of the task
StoredBlocks ==
    UNION { { block_id(i - 1, brows[i][k]) : k \in DOMAIN brows[i] } :
              i \in DOMAIN brows }

C37_IteratorReadsInBounds ==
    \A i \in reads : i >= 0 /\ i <= task.num_block_rows

\* ------------------------------------------------------------ SpMV and SpMM
NotSpmvVars == << engineVars, programVars, flashVars, mulVars, cliVars,
                  countVars, permVars, balVars, threadVars, runVars >>
NotSpmvIdle ==
    /\ EngineIdle /\ ProgramIdle /\ FlashIdle /\ MulIdle /\ CliIdle
    /\ CountIdle /\ PermIdle /\ BalIdle /\ ThreadIdle /\ RunIdle

\* rows and columns of the sparse matrix
SpIdx == 0 .. (SpDim - 1)

RECURSIVE SubsetsUpTo(_, _)
\* the subsets of S of at most m elements
SubsetsUpTo(S, m) ==
    IF m = 0 THEN { {} }
    ELSE LET P == SubsetsUpTo(S, m - 1)
         IN P \cup { p \cup {x} : p \in P, x \in S }

\* the sparse matrices: the sets of at most MaxNnz non-zero entries <<row, col>>
SparseMatrices == SubsetsUpTo(SpIdx \X SpIdx, MaxNnz)

\* the dense operand: one row of width entries of T for every matrix column;
\* T is an unsigned integer type of TModulus values
InRows(width) ==
    [c \in SpIdx |-> [j \in 1 .. width |->
        IF j = 1 THEN (2 ^ c) % TModulus ELSE (TModulus - 1 - c) % TModulus]]

\* the output, zero-initialised
ZeroRows(width) == [r \in SpIdx |-> [j \in 1 .. width |-> 0]]

\* the number of block rows (and block columns) of the matrix
num_grid_rows == (SpDim + sp_block_size - 1) \div sp_block_size

\* the tasks: each takes sp_strip block rows, the last one what is left
SpTasks == 0 .. (((num_grid_rows + sp_strip - 1) \div sp_strip) - 1)

\* the block rows of task t, first to last
task_block_rows(t) ==
    SetToSeq({ br \in 0 .. (num_grid_rows - 1) :
                 br >= t * sp_strip /\ br < (t + 1) * sp_strip })

\* the non-zero entries of the matrix inside block (br, bc)
block_entries(br, bc) ==
    { e \in sp_matrix : e[1] \div sp_block_size = br /\ e[2] \div sp_block_size = bc }

\* the block columns of the blocks stored in block row br: the non-empty ones
stored_cols(br) ==
    SetToSeq({ bc \in 0 .. (num_grid_rows - 1) : block_entries(br, bc) # {} })

\* the order a task of n block rows executes with: the constructor of
\* block_compute_task keeps the given order when it is valid for n x n
task_exec_order(n) == block_compute_task(order, n, 0, PAGE_SIZE).exec_order

RECURSIVE spmv_sum(_, _)
\* block_spmv_task::run_on_row_part, the loop: sum += input.get(col_idx)
spmv_sum(cols, x) ==
    IF cols = << >> THEN 0
    ELSE (x[Head(cols)][1] + spmv_sum(Tail(cols), x)) % TModulus

\* mutant: output.set(row_idx, sum)
spmv_run_on_row_part_set(out, row, cols, x) ==
    [out EXCEPT ![row] = [j \in DOMAIN @ |-> spmv_sum(cols, x)]]

\* block_spmv_task::run_on_row_part: output.set(row_idx, output.get(row_idx) + sum)
spmv_run_on_row_part(out, row, cols, x) ==
    [out EXCEPT ![row] = [j \in DOMAIN @ |-> (@[j] + spmv_sum(cols, x)) % TModulus]]

RECURSIVE spmm_run_on_row_part(_, _, _, _)
\* block_spmm_task::run_on_row_part: for every non-zero of the row part,
\* dest_row[j] += src_row[j] for every j
spmm_run_on_row_part(out, row, cols, x) ==
    IF cols = << >> THEN out
    ELSE spmm_run_on_row_part(
             [out EXCEPT ![row] = [j \in DOMAIN @ |->
                                     (@[j] + x[Head(cols)][j]) % TModulus]],
             row, Tail(cols), x)

\* run_on_row_part of the task under way
run_on_row_part(out, row, cols, x) ==
    IF sp_kind = "spmv" THEN spmv_run_on_row_part(out, row, cols, x)
    ELSE spmm_run_on_row_part(out, row, cols, x)

RECURSIVE run_on_row_parts(_, _, _, _)
\* the loop of run_on_block over the row parts of block b, in row order
run_on_row_parts(out, rows, b, x) ==
    IF rows = << >> THEN out
    ELSE run_on_row_parts(
             run_on_row_part(out, Head(rows),
                 SetToSeq({ e[2] : e \in { f \in block_entries(block_row_idx(b),
                                                              block_col_idx(b)) :
                                            f[1] = Head(rows) } }),
                 x),
             Tail(rows), b, x)

\* run_on_block: every row part of the block, a row part being a row of the
\* block that holds a non-zero entry
run_on_block(out, b, x) ==
    run_on_row_parts(out,
        SetToSeq({ e[1] : e \in block_entries(block_row_idx(b), block_col_idx(b)) }),
        b, x)

RECURSIVE run_on_blocks(_, _, _)
\* run_on_block on the blocks bl, first to last
run_on_blocks(out, bl, x) ==
    IF bl = << >> THEN out
    ELSE run_on_blocks(run_on_block(out, Head(bl), x), Tail(bl), x)

\* a worker runs one round of the do-while loop of task t: the super block
\* is gathered, handed to the task's order, and run_on_block updates the
\* output for every block the order passes on
SpmvSuperBlock(t) ==
    /\ sp_pc[t] = "loop"
    /\ LET trows == task_block_rows(t)
           n == Len(trows)
           fr == [i \in 1 .. n |->
                    fill_row(trows[i], stored_cols(trows[i]), sp_its[t][i],
                             sp_sb[t], 0, n)]
           sb == [k \in 1 .. n * n |->
                    fr[((k - 1) \div n) + 1].cells[((k - 1) % n) + 1]]
           more == \E i \in 1 .. n : fr[i].p <= Len(stored_cols(trows[i]))
           passed == exec(task_exec_order(n), sb).ran
       IN /\ sp_its' = [sp_its EXCEPT ![t] = [i \in 1 .. n |-> fr[i].p]]
          /\ sp_sb' = [sp_sb EXCEPT ![t] = @ + n]
          /\ sp_pc' = [sp_pc EXCEPT ![t] = IF more THEN "loop" ELSE "done"]
          /\ sp_out' = run_on_blocks(sp_out, passed, sp_in)
          /\ executed' = executed \o passed
    /\ UNCHANGED << sp_matrix, sp_in, sp_block_size, sp_strip, sp_kind >>
    /\ UNCHANGED << use_hilbert_order, grid, order, task, blocks, exec_ret, mpc >>
    /\ UNCHANGED NotSpmvVars

SpmvInit ==
    /\ NotSpmvIdle
    /\ sp_matrix \in SparseMatrices
    /\ sp_kind \in {"spmv", "spmm"}
    /\ sp_in = InRows(IF sp_kind = "spmv" THEN 1 ELSE SpWidth)
    /\ sp_out = ZeroRows(IF sp_kind = "spmv" THEN 1 ELSE SpWidth)
    /\ sp_block_size \in 1 .. MaxBlockSize
    /\ sp_strip \in 1 .. num_grid_rows
    /\ sp_its = [t \in SpTasks |-> [i \in 1 .. Len(task_block_rows(t)) |-> 1]]
    /\ sp_sb = [t \in SpTasks |-> 0]
    /\ sp_pc = [t \in SpTasks |-> "loop"]
    /\ use_hilbert_order \in BOOLEAN
    /\ grid = << sp_strip, sp_strip >>
    /\ order = IF use_hilbert_order /\ log2_is_integral(sp_strip)
               THEN hilbert_exec_order(sp_strip) ELSE seq_exec_order
    /\ task = NoTask
    /\ blocks = << >>
    /\ executed = << >>
    /\ exec_ret = "none"
    /\ mpc = "idle"

SpmvNext == \E t \in SpTasks : SpmvSuperBlock(t)

\* SpMV and SpMM of every sparse matrix of SpDim rows and columns with at
\* most MaxNnz non-zero entries, for every block size, every split of the
\* block rows over tasks and both orders; the tasks run on concurrent
\* workers, one super block at a time
SpmvSpec == SpmvInit /\ [][SpmvNext]_vars

RECURSIVE SumOfRows(_, _, _)
\* the sum over the columns C of entry j of the operand's rows, in T
SumOfRows(C, x, j) ==
    IF C = {} THEN 0
    ELSE LET c == CHOOSE d \in C : TRUE
         IN (x[c][j] + SumOfRows(C \ {c}, x, j)) % TModulus

\* every task has run all its super blocks
SpmvDone == \A t \in SpTasks : sp_pc[t] = "done"

\* C31: for the same sparse matrix and input, with the output
\* zero-initialised, SpMV and SpMM executed in Hilbert block order produce
\* the same output as in sequential block order, namely
\* out[row] = sum of in[col] over the non-zero entries (row, col): the result
\* does not depend on the order in which the blocks are visited nor on how
\* the block rows are split over tasks.
C31_OrderIndependentProduct ==
    SpmvDone =>
        sp_out = [r \in SpIdx |-> [j \in DOMAIN sp_in[r] |->
                    SumOfRows({ e[2] : e \in { f \in sp_matrix : f[1] = r } },
                              sp_in, j)]]

\* a product in Hilbert order in which two blocks of one block row were
\* run in descending column order, and the row's output is the sum of both
C31_Witness ==
    /\ SpmvDone
    /\ order.kind = "hilbert"
    /\ \E a, b \in DOMAIN executed :
          /\ a < b
          /\ block_row_idx(executed[a]) = block_row_idx(executed[b])
          /\ block_col_idx(executed[a]) > block_col_idx(executed[b])
    /\ \E r \in SpIdx : Cardinality({ f \in sp_matrix : f[1] = r }) = 2

====
